---- MODULE Spec2Model ----
(***************************************************************************)
(* Trial-list generation, session sequencing and single trials of the      *)
(* EM2-audio experiments (detection, typing, forced choice, mainV1,        *)
(* gemini_code_v1), and the d-prime analysis of the detection data.        *)
(*                                                                         *)
(* A file name is a sequence of tokens in which "_" and "." are the        *)
(* separators the code splits on; a directory is the listing that          *)
(* get_files_from_dir returns for it (hidden files already left out), or   *)
(* is absent.  Masks and babble files are identified by their index in     *)
(* the listing.  random.shuffle / random.choice / random.choices are       *)
(* nondeterministic choices over every outcome they can produce.           *)
(***************************************************************************)
EXTENDS Integers, Sequences, FiniteSets, TLC

VARIABLES
    prog,            \* which script runs
    nLevels,         \* len(COMPRESSION_LEVELS) of that script
    fs,              \* the asset directories found on disk
    earlier,         \* what an earlier run on the same directories returned
    gpc,             \* position inside the generator
    lvl,             \* index of `level` in the loop over COMPRESSION_LEVELS
    practice_list,
    main_list,
    prime_list,      \* generate_trial_list: the shuffled prime conditions
    face_list,       \* mainV1: the shuffled face files
    all_prime_words, \* forced_choice: the unique prime words
    generated_trials,
    n_built,         \* the `i` of `for i in range(N_TOTAL_TRIALS)`: trials built so far
    mask1,
    mask2,
    distractor_word,
    mask_files,      \* gemini_code_v1: self.mask_files
    pc,              \* position inside main()
    thisN,           \* TrialHandler.thisN of the loop being run, counted from 0
    result,          \* what the last run_trial call returned
    quit_experiment,
    presented,       \* the run_trial calls made so far, in order
    shown,           \* the instruction screens shown so far, in order
    tpc,             \* position inside run_trial
    trial_info,      \* the trial dictionary run_trial was called with
    last_key,        \* `key`: the last key read from the keyboard
    typed_string,    \* typing experiment: the text typed so far
    correct_key,     \* forced choice: the side the correct word was put on
    row,             \* what the trial added to its TrialHandler
    iti_done,        \* the inter-trial interval of the trial has been waited
    ret,             \* what run_trial returned
    data_dir,        \* analyse.py: DATA_DIR and the *.csv files in it
    apc,             \* position inside the analysis script
    df,              \* the concatenated data frame, a sequence of rows
    results,         \* the table compute_rate_results returned
    exit_code,       \* exit status of the script, -1 while it runs
    args,            \* arguments of a call of dprime / signif_marker
    out              \* what that call returned

inputVars == <<prog, nLevels, fs, earlier>>
controlVars == <<lvl, practice_list, main_list>>
choiceVars == <<prime_list, face_list, all_prime_words, generated_trials, n_built,
                mask1, mask2, distractor_word>>

sessionVars == <<mask_files, pc, thisN, result, quit_experiment, presented,
                 shown>>

trialVars == <<tpc, trial_info, last_key, typed_string, correct_key, row, iti_done, ret>>

analysisVars == <<data_dir, apc, df, results, exit_code, args, out>>

vars == <<prog, nLevels, fs, earlier, gpc, lvl, practice_list, main_list, prime_list,
          face_list, all_prime_words, generated_trials, n_built, mask1, mask2,
          distractor_word, mask_files, pc, thisN, result, quit_experiment,
          presented, shown, tpc, trial_info, last_key, typed_string, correct_key, row,
          iti_done, ret, data_dir, apc, df, results, exit_code, args, out>>

----------------------------------------------------------------------------
(* Bounds of the exploration *)

MaxLevels == 2
MaxExtraFiles == 1
MaxMasks == 2
MaxBabble == 2
MaxAuxDraws == 4
MaxGenTrials == 8

(* Trial counts of the two control experiments.  N_MAIN_REPS_PER_LEVEL is 7 *)
(* in d-prime_detection.py; the exploration runs it at a smaller count.    *)

N_PRACTICE_REPS_PER_LEVEL == 1
N_MAIN_REPS_PER_LEVEL == 1
N_PRACTICE_WORDS_PER_FOLDER == 1
N_MAIN_WORDS_PER_FOLDER == 1

PracticePerLevel(p) ==
    IF p = "detection" THEN N_PRACTICE_REPS_PER_LEVEL ELSE N_PRACTICE_WORDS_PER_FOLDER

MainPerLevel(p) ==
    IF p = "detection" THEN N_MAIN_REPS_PER_LEVEL ELSE N_MAIN_WORDS_PER_FOLDER

\* files_needed_per_folder / words_needed_per_folder
FilesNeeded(p) == PracticePerLevel(p) + MainPerLevel(p)

\* trials one level contributes to one list
TrialsPerFile(p) == IF p = "detection" THEN 2 ELSE 1

----------------------------------------------------------------------------
(* File names *)

SILENCE == <<"SILENCE">>
NA == <<"NA">>

\* the listing of a level folder holding n files: its first n names
FolderNames ==
    << <<"bange", "_", "compressed", ".", "wav">>,
       <<"glad", "_", "compressed", ".", "wav">>,
       <<"sur", ".", "wav">>,
       <<"bord", "_", "c", ".", "wav">>,
       <<"stol", ".", "wav">> >>

Listing(names, n) == SubSeq(names, 1, n)

Positions(s, tok) == {i \in 1..Len(s) : s[i] = tok}

Max(S) == CHOOSE x \in S : \A y \in S : y <= x
Min(S) == CHOOSE x \in S : \A y \in S : x <= y

\* os.path.splitext(filename)[0]: cut at the last dot, unless it leads the name
SplitExtRoot(f) ==
    LET dots == Positions(f, ".") \ {1}
    IN  IF dots = {} THEN f ELSE SubSeq(f, 1, Max(dots) - 1)

\* str.split('_')[0]
BeforeFirstUnderscore(s) ==
    LET us == Positions(s, "_")
    IN  IF us = {} THEN s ELSE SubSeq(s, 1, Min(us) - 1)

get_word_from_filename(f) == BeforeFirstUnderscore(SplitExtRoot(f))

----------------------------------------------------------------------------
(* Directories *)

Dir(n) == [exists |-> TRUE, n |-> n]
NoDir == [exists |-> FALSE, n |-> 0]
DirsUpTo(n) == {NoDir} \cup {Dir(k) : k \in 0..n}

----------------------------------------------------------------------------
(* Randomness *)

Perms(n) == {p \in [1..n -> 1..n] : \A i, j \in 1..n : i # j => p[i] # p[j]}

\* every outcome of random.shuffle(s)
Shuffles(s) == {[i \in 1..Len(s) |-> s[p[i]]] : p \in Perms(Len(s))}

\* one trial's random.choice draws: babbling_file, mask1_file, mask2_file
AuxDraws(nb, nm) == [b : 1..nb, m1 : 1..nm, m2 : 1..nm]

----------------------------------------------------------------------------
(* generate_trial_lists of d-prime_detection.py and main_typing_experiment.py *)

\* the Python slice s[lo:hi], which stops at the end of a shorter list
Slice(s, lo, hi) == SubSeq(s, lo + 1, IF hi <= Len(s) THEN hi ELSE Len(s))

PracticeFiles(files, p) == Slice(files, 0, PracticePerLevel(p))

\* the slice ended one place early: files_in_folder[N_PRACTICE : files_needed - 1]
MainFilesCutShort(files, p) == Slice(files, PracticePerLevel(p), FilesNeeded(p) - 1)

\* the slice started one place early: it takes the last practice file again
MainFilesOverlapping(files, p) ==
    Slice(files, PracticePerLevel(p) - 1, FilesNeeded(p) - 1)

MainFiles(files, p) == Slice(files, PracticePerLevel(p), FilesNeeded(p))

\* the check accepting a folder one file short
TooFewFilesOffByOne(n, p) == n < FilesNeeded(p) - 1

\* len(files_in_folder) < files_needed_per_folder
TooFewFiles(n, p) == n < FilesNeeded(p)

PresentTrial(level, f, d) ==
    [signal_type |-> "present", compression_level |-> level, prime_file |-> f,
     correct_word |-> get_word_from_filename(f),
     babbling_file |-> d.b, mask1_file |-> d.m1, mask2_file |-> d.m2]

\* the absent trial's dictionary copied from the present one, its label not changed
AbsentTrialMislabelled(level, d) ==
    [signal_type |-> "present", compression_level |-> level, prime_file |-> SILENCE,
     correct_word |-> NA,
     babbling_file |-> d.b, mask1_file |-> d.m1, mask2_file |-> d.m2]

AbsentTrial(level, d) ==
    [signal_type |-> "absent", compression_level |-> level, prime_file |-> SILENCE,
     correct_word |-> NA,
     babbling_file |-> d.b, mask1_file |-> d.m1, mask2_file |-> d.m2]

TypingTrial(level, f, d) ==
    [compression_level |-> level, prime_file |-> f,
     correct_word |-> get_word_from_filename(f),
     babbling_file |-> d.b, mask1_file |-> d.m1, mask2_file |-> d.m2]

\* the trials the loop `for f in files` appends; d[off + k] are the draws of the
\* k-th appended trial
DetectionTrials(level, files, d, off) ==
    [k \in 1..(2 * Len(files)) |->
        IF k % 2 = 1 THEN PresentTrial(level, files[(k + 1) \div 2], d[off + k])
                     ELSE AbsentTrial(level, d[off + k])]

TypingTrials(level, files, d, off) ==
    [k \in 1..Len(files) |-> TypingTrial(level, files[k], d[off + k])]

LevelTrials(p, level, files, d, off) ==
    IF p = "detection" THEN DetectionTrials(level, files, d, off)
                       ELSE TypingTrials(level, files, d, off)

\* core.quit() inside the generator: the function never returns
GenQuit ==
    /\ gpc' = "quit"
    /\ UNCHANGED <<inputVars, analysisVars, trialVars, sessionVars, controlVars, choiceVars>>

\* lines 247-263 (detection), 240-255 (typing)
LoadAssets ==
    /\ prog \in {"detection", "typing"}
    /\ gpc = "start"
    /\ \/ /\ ~fs.babbling.exists \/ ~fs.masks.exists
          /\ GenQuit
       \/ /\ fs.babbling.exists /\ fs.masks.exists
          /\ fs.babbling.n = 0 \/ fs.masks.n = 0
          /\ GenQuit
       \/ /\ fs.babbling.exists /\ fs.masks.exists
          /\ fs.babbling.n > 0 /\ fs.masks.n > 0
          /\ gpc' = "levels"
          /\ lvl' = 1
          /\ practice_list' = <<>>
          /\ main_list' = <<>>
          /\ UNCHANGED <<inputVars, analysisVars, trialVars, sessionVars, choiceVars>>

\* one iteration of `for level in COMPRESSION_LEVELS`
GenLevel ==
    /\ prog \in {"detection", "typing"}
    /\ gpc = "levels"
    /\ lvl <= nLevels
    /\ \/ /\ ~fs.audio[lvl].exists
          /\ GenQuit
       \/ /\ fs.audio[lvl].exists
          /\ TooFewFiles(fs.audio[lvl].n, prog)
          /\ GenQuit
       \/ /\ fs.audio[lvl].exists
          /\ ~TooFewFiles(fs.audio[lvl].n, prog)
          /\ \E files_in_folder \in Shuffles(Listing(FolderNames, fs.audio[lvl].n)) :
             \E d \in [1..(TrialsPerFile(prog) * FilesNeeded(prog)) ->
                          AuxDraws(fs.babbling.n, fs.masks.n)] :
                LET practice_files == PracticeFiles(files_in_folder, prog)
                    main_files == MainFiles(files_in_folder, prog)
                IN  /\ practice_list' = practice_list \o
                          LevelTrials(prog, lvl, practice_files, d, 0)
                    /\ main_list' = main_list \o
                          LevelTrials(prog, lvl, main_files, d,
                                      TrialsPerFile(prog) * Len(practice_files))
          /\ lvl' = lvl + 1
          /\ UNCHANGED <<inputVars, analysisVars, trialVars, sessionVars, gpc, choiceVars>>

\* the two final shuffles and the return
GenReturn ==
    /\ prog \in {"detection", "typing"}
    /\ gpc = "levels"
    /\ lvl > nLevels
    /\ practice_list' \in Shuffles(practice_list)
    /\ main_list' \in Shuffles(main_list)
    /\ gpc' = "returned"
    /\ UNCHANGED <<inputVars, analysisVars, trialVars, sessionVars, lvl, choiceVars>>

----------------------------------------------------------------------------
(* The generators of the control experiments over every asset layout *)

NumTrials(p, nl) == nl * TrialsPerFile(p) * FilesNeeded(p)

\* the independent auxiliary choices one generation makes beyond the forced ones
AuxChoices(p, nl, f) ==
    NumTrials(p, nl) * ((IF f.babbling.n > 1 THEN f.babbling.n - 1 ELSE 0)
                        + (IF f.masks.n > 1 THEN f.masks.n - 1 ELSE 0))

ControlLayouts(p, nl) ==
    {f \in [audio : [1..nl -> DirsUpTo(FilesNeeded(p) + MaxExtraFiles)],
            babbling : DirsUpTo(MaxBabble),
            masks : DirsUpTo(MaxMasks)] :
        /\ NumTrials(p, nl) <= MaxGenTrials
        /\ AuxChoices(p, nl, f) <= MaxAuxDraws}

\* no earlier run on these directories
NoRun == [ran |-> FALSE]

\* the locals of a generator before it has run
GeneratorAtEntry ==
    /\ earlier = NoRun
    /\ gpc = "start"
    /\ lvl = 0
    /\ practice_list = <<>>
    /\ main_list = <<>>
    /\ prime_list = <<>>
    /\ face_list = <<>>
    /\ all_prime_words = {}
    /\ generated_trials = <<>>
    /\ n_built = 0
    /\ mask1 = 0
    /\ mask2 = 0
    /\ distractor_word = <<>>

NoRow == [recorded |-> FALSE]

\* the analysis script is not running
AnalysisIdle ==
    /\ data_dir = NoDir
    /\ apc = "idle"
    /\ df = <<>>
    /\ results = <<>>
    /\ exit_code = -1
    /\ args = <<>>
    /\ out = <<>>

\* no run_trial call is under way
TrialIdle ==
    /\ tpc = "idle"
    /\ trial_info = NoRow
    /\ last_key = "None"
    /\ typed_string = <<>>
    /\ correct_key = "None"
    /\ row = NoRow
    /\ iti_done = FALSE
    /\ ret = "None"

\* main() before its first statement
SessionAtEntry ==
    /\ TrialIdle
    /\ AnalysisIdle
    /\ mask_files = <<>>
    /\ pc = "generate"
    /\ thisN = 0
    /\ result = "None"
    /\ quit_experiment = FALSE
    /\ presented = <<>>
    /\ shown = <<>>

InitGen ==
    /\ prog \in {"detection", "typing"}
    /\ nLevels \in 1..MaxLevels
    /\ fs \in ControlLayouts(prog, nLevels)
    /\ GeneratorAtEntry
    /\ SessionAtEntry

NextGen == LoadAssets \/ GenLevel \/ GenReturn

SpecGen == InitGen /\ [][NextGen]_vars

----------------------------------------------------------------------------
(* generate_trial_list of forced_choice.py and mainV1.py.  The scripts set   *)
(* N_PRACTICE_TRIALS = 2 and prime counts 4/3/3 (forced_choice.py) and      *)
(* 3/3/2/2 (mainV1.py); the exploration runs them at smaller counts.        *)

N_PRACTICE_TRIALS == 1
N_POS_PRIMES_FC == 2
N_POS_PRIMES_V1 == 1
N_NEG_PRIMES == 1
N_NEU_PRIMES == 1
N_NO_PRIMES == 1

NPos(p) == IF p = "forced_choice" THEN N_POS_PRIMES_FC ELSE N_POS_PRIMES_V1
\* forced_choice.py has no 'no-prime' condition
NNoPrime(p) == IF p = "forced_choice" THEN 0 ELSE N_NO_PRIMES

\* the prime counts "MUST SUM TO" N_TOTAL_TRIALS = N_PRACTICE_TRIALS + N_MAIN_TRIALS
N_TOTAL_TRIALS(p) == NPos(p) + N_NEG_PRIMES + N_NEU_PRIMES + NNoPrime(p)
N_MAIN_TRIALS(p) == N_TOTAL_TRIALS(p) - N_PRACTICE_TRIALS

\* the files a primes/<valence>/ folder can hold
PositiveNames == << <<"glad", "_", "1", ".", "wav">>, <<"glad", "_", "2", ".", "wav">> >>
NegativeNames == << <<"glad", "_", "neg", ".", "wav">>, <<"sur", "_", "c", ".", "wav">> >>
NeutraleNames == << <<"glad", ".", "wav">>, <<"bord", ".", "wav">> >>
FaceNames == << <<"p1", ".", "jpg">>, <<"p2", ".", "jpg">>, <<"p3", ".", "jpg">>,
                <<"p4", ".", "jpg">>, <<"p5", ".", "jpg">>, <<"p6", ".", "jpg">>,
                <<"p7", ".", "jpg">>, <<"p8", ".", "jpg">> >>

FileDir(files) == [exists |-> TRUE, n |-> Len(files), files |-> files]
NoFileDir == [exists |-> FALSE, n |-> 0, files |-> <<>>]
FileDirs(names) == {NoFileDir} \cup {FileDir(Listing(names, k)) : k \in 0..Len(names)}

Range(s) == {s[k] : k \in 1..Len(s)}

\* random.choices(files, k): k draws with replacement
Choices(files, k) == [1..k -> Range(files)]

PrimeDict(p, f, valence) ==
    IF p = "forced_choice"
    THEN [file |-> f, valence |-> valence, word |-> get_word_from_filename(f)]
    ELSE [file |-> f, valence |-> valence]

NoPrimeDict == [file |-> SILENCE, valence |-> "no-prime"]

\* the negative block pasted from the positive one, its valence label not changed
PrimeListMislabelled(p, pos, neg, neu) ==
    [k \in 1..NPos(p) |-> PrimeDict(p, pos[k], "positive")]
    \o [k \in 1..N_NEG_PRIMES |-> PrimeDict(p, neg[k], "positive")]
    \o [k \in 1..N_NEU_PRIMES |-> PrimeDict(p, neu[k], "neutral")]
    \o [k \in 1..NNoPrime(p) |-> NoPrimeDict]

\* prime_list before random.shuffle(prime_list)
PrimeList(p, pos, neg, neu) ==
    [k \in 1..NPos(p) |-> PrimeDict(p, pos[k], "positive")]
    \o [k \in 1..N_NEG_PRIMES |-> PrimeDict(p, neg[k], "negative")]
    \o [k \in 1..N_NEU_PRIMES |-> PrimeDict(p, neu[k], "neutral")]
    \o [k \in 1..NNoPrime(p) |-> NoPrimeDict]

\* list(set([get_word_from_filename(f) for f in all_prime_files]))
UniqueWords(f) ==
    {get_word_from_filename(x) :
        x \in Range(f.positive.files) \cup Range(f.negative.files)
              \cup Range(f.neutrale.files)}

SoundDirs(f) == {f.positive, f.negative, f.neutrale, f.babbling, f.masks}

\* the loop that keeps mask2 apart from mask1, left out
MasksNeverCollide(m1, m2) == FALSE

\* the loop condition turned round
MasksDiffer(m1, m2) == m1 # m2

\* while mask1 == mask2
MasksCollide(m1, m2) == m1 = m2

\* the loop that keeps the distractor apart from the correct word, left out
DistractorNeverCollides(d, w) == FALSE

\* while distractor_word == correct_word
DistractorCollides(d, w) == d = w

FCProg == prog \in {"forced_choice", "mainV1"}

\* an exception leaves the generator: nothing is returned
GenRaise ==
    /\ gpc' = "raised"
    /\ UNCHANGED <<inputVars, analysisVars, trialVars, sessionVars, controlVars, choiceVars>>

\* forced_choice lines 236-282, mainV1 lines 306-369: the asset checks, the
\* prime list and the shuffles before the trials are built
LoadPrimes ==
    /\ FCProg
    /\ gpc = "start"
    /\ \/ /\ prog = "forced_choice"
          /\ \E d \in SoundDirs(fs) : ~d.exists
          /\ GenQuit
       \/ /\ prog = "mainV1"
          /\ ~fs.faces.exists \/ fs.faces.n < N_TOTAL_TRIALS(prog)
          /\ GenQuit
       \/ /\ prog = "mainV1"
          /\ fs.faces.exists /\ fs.faces.n >= N_TOTAL_TRIALS(prog)
          /\ \E d \in SoundDirs(fs) : ~d.exists
          /\ GenRaise
       \/ /\ prog = "mainV1" => (fs.faces.exists /\ fs.faces.n >= N_TOTAL_TRIALS(prog))
          /\ \A d \in SoundDirs(fs) : d.exists
          /\ \E d \in SoundDirs(fs) : d.n = 0
          /\ GenQuit
       \/ /\ prog = "forced_choice"
          /\ \A d \in SoundDirs(fs) : d.exists /\ d.n > 0
          /\ Cardinality(UniqueWords(fs)) < 2
          /\ GenQuit
       \/ /\ prog = "mainV1" => (fs.faces.exists /\ fs.faces.n >= N_TOTAL_TRIALS(prog))
          /\ \A d \in SoundDirs(fs) : d.exists /\ d.n > 0
          /\ prog = "forced_choice" => Cardinality(UniqueWords(fs)) >= 2
          /\ \E pos \in Choices(fs.positive.files, NPos(prog)),
                neg \in Choices(fs.negative.files, N_NEG_PRIMES),
                neu \in Choices(fs.neutrale.files, N_NEU_PRIMES) :
                prime_list' \in Shuffles(PrimeList(prog, pos, neg, neu))
          /\ face_list' \in (IF prog = "mainV1" THEN Shuffles(fs.faces.files) ELSE {<<>>})
          /\ all_prime_words' = (IF prog = "forced_choice" THEN UniqueWords(fs) ELSE {})
          /\ generated_trials' = <<>>
          /\ n_built' = 0
          /\ gpc' = "build"
          /\ UNCHANGED <<inputVars, analysisVars, trialVars, sessionVars, controlVars, mask1, mask2, distractor_word>>

\* mask1 = random.choice(mask_list); mask2 = random.choice(mask_list)
DrawMasks ==
    /\ FCProg
    /\ gpc = "build"
    /\ n_built < N_TOTAL_TRIALS(prog)
    /\ mask1' \in 1..fs.masks.n
    /\ mask2' \in 1..fs.masks.n
    /\ gpc' = "mask_loop"
    /\ UNCHANGED <<inputVars, analysisVars, trialVars, sessionVars, controlVars, prime_list, face_list, all_prime_words,
                   generated_trials, n_built, distractor_word>>

\* the body of `while mask1 == mask2`
RedrawMask2 ==
    /\ FCProg
    /\ gpc = "mask_loop"
    /\ MasksCollide(mask1, mask2)
    /\ mask2' \in 1..fs.masks.n
    /\ UNCHANGED <<inputVars, analysisVars, trialVars, sessionVars, controlVars, gpc, prime_list, face_list, all_prime_words,
                   generated_trials, n_built, mask1, distractor_word>>

\* distractor_word = random.choice(all_prime_words)
DrawDistractor ==
    /\ prog = "forced_choice"
    /\ gpc = "mask_loop"
    /\ ~MasksCollide(mask1, mask2)
    /\ distractor_word' \in all_prime_words
    /\ gpc' = "distractor_loop"
    /\ UNCHANGED <<inputVars, analysisVars, trialVars, sessionVars, controlVars, prime_list, face_list, all_prime_words,
                   generated_trials, n_built, mask1, mask2>>

\* the body of `while distractor_word == correct_word`
RedrawDistractor ==
    /\ prog = "forced_choice"
    /\ gpc = "distractor_loop"
    /\ DistractorCollides(distractor_word, prime_list[n_built + 1].word)
    /\ distractor_word' \in all_prime_words
    /\ UNCHANGED <<inputVars, analysisVars, trialVars, sessionVars, controlVars, gpc, prime_list, face_list, all_prime_words,
                   generated_trials, n_built, mask1, mask2>>

TrialData(p, k, prime, face, distractor, b, m1, m2) ==
    IF p = "forced_choice"
    THEN [trial_i |-> k, prime_file |-> prime.file, prime_valence |-> prime.valence,
          correct_word |-> prime.word, distractor_word |-> distractor,
          babbling_file |-> b, mask1_file |-> m1, mask2_file |-> m2]
    ELSE [trial_i |-> k, face_file |-> face, prime_file |-> prime.file,
          prime_valence |-> prime.valence,
          babbling_file |-> b, mask1_file |-> m1, mask2_file |-> m2]

\* trial_data is built and appended; the loop goes on with the next i
AppendTrial ==
    /\ \/ /\ prog = "forced_choice"
          /\ gpc = "distractor_loop"
          /\ ~DistractorCollides(distractor_word, prime_list[n_built + 1].word)
       \/ /\ prog = "mainV1"
          /\ gpc = "mask_loop"
          /\ ~MasksCollide(mask1, mask2)
    /\ \E b \in 1..fs.babbling.n :
          generated_trials' = Append(generated_trials,
              TrialData(prog, n_built + 1, prime_list[n_built + 1],
                        IF prog = "mainV1" THEN face_list[n_built + 1] ELSE <<>>,
                        distractor_word, b, mask1, mask2))
    /\ n_built' = n_built + 1
    /\ gpc' = "build"
    /\ UNCHANGED <<inputVars, analysisVars, trialVars, sessionVars, controlVars, prime_list, face_list, all_prime_words,
                   mask1, mask2, distractor_word>>

\* random.shuffle(generated_trials); return generated_trials
ReturnTrials ==
    /\ FCProg
    /\ gpc = "build"
    /\ n_built = N_TOTAL_TRIALS(prog)
    /\ generated_trials' \in Shuffles(generated_trials)
    /\ gpc' = "returned"
    /\ UNCHANGED <<inputVars, analysisVars, trialVars, sessionVars, controlVars, prime_list, face_list, all_prime_words,
                   n_built, mask1, mask2, distractor_word>>

\* how far a layout goes beyond the smallest pools the generator accepts
Beyond(n, least) == IF n > least THEN n - least ELSE 0

\* mainV1 also pairs every trial with a shuffled face
ExtraAssets(p, f) ==
    Beyond(f.positive.n, 1) + Beyond(f.negative.n, 1) + Beyond(f.neutrale.n, 1)
    + Beyond(f.babbling.n, 1) + Beyond(f.masks.n, 2)
    + (IF p = "mainV1" THEN 1 ELSE 0)

MaxExtraAssets == 1

FaceDirs(p) ==
    IF p = "mainV1"
    THEN {NoFileDir} \cup {FileDir(Listing(FaceNames, k)) : k \in 0..N_TOTAL_TRIALS(p)}
    ELSE {NoFileDir}

ChoiceLayouts(p) ==
    {f \in [positive : FileDirs(PositiveNames), negative : FileDirs(NegativeNames),
            neutrale : FileDirs(NeutraleNames), faces : FaceDirs(p),
            babbling : DirsUpTo(MaxBabble), masks : DirsUpTo(MaxMasks)] :
        ExtraAssets(p, f) <= MaxExtraAssets}

----------------------------------------------------------------------------
(* gemini_code_v1.py: SubliminalExperiment.load_stimuli and run_trial *)

MaxGeminiTrials == 2

\* what os.listdir may find in masks/: sound files and a file of another kind
MaskNames ==
    << <<"m1", ".", "mp3">>, <<"notes", ".", "txt">>,
       <<"m2", ".", "mp3">>, <<"m3", ".", "mp3">> >>

\* f.endswith('.mp3')
EndsWithMp3(f) == Len(f) >= 2 /\ f[Len(f) - 1] = "." /\ f[Len(f)] = "mp3"

\* [f for f in self.mask_files if f != mask1_file]
MasksOtherThan(files, first) == {f \in Range(files) : f # first}

\* the mask part of load_stimuli
load_stimuli ==
    /\ prog = "gemini"
    /\ gpc = "start"
    /\ \/ /\ ~fs.masks.exists
          /\ gpc' = "raised"
          /\ UNCHANGED mask_files
       \/ /\ fs.masks.exists
          /\ mask_files' = SelectSeq(fs.masks.files, EndsWithMp3)
          /\ gpc' = IF Len(mask_files') < 2 THEN "raised" ELSE "loaded"
    /\ UNCHANGED <<inputVars, analysisVars, trialVars, controlVars, choiceVars, pc, thisN, result,
                   quit_experiment, presented, shown>>

\* one call of run_trial: both masks are played before the rating key is read;
\* the escape key closes the experiment from inside the call
gemini_run_trial ==
    /\ prog = "gemini"
    /\ gpc = "loaded"
    /\ Len(presented) < MaxGeminiTrials
    /\ \E mask1_file \in Range(mask_files) :
       \E mask2_file \in MasksOtherThan(mask_files, mask1_file) :
       \E key \in {"rating", "escape"} :
          /\ mask1' = mask1_file
          /\ mask2' = mask2_file
          /\ presented' = Append(presented,
                [mask1_file |-> mask1_file, mask2_file |-> mask2_file,
                 response |-> key])
          /\ gpc' = IF key = "escape" THEN "closed" ELSE "loaded"
    /\ UNCHANGED <<inputVars, analysisVars, trialVars, controlVars, prime_list, face_list, all_prime_words,
                   generated_trials, n_built, distractor_word, mask_files, pc,
                   thisN, result, quit_experiment, shown>>

GeminiLayouts == [masks : FileDirs(MaskNames)]

InitFC ==
    /\ \/ /\ prog \in {"forced_choice", "mainV1"}
          /\ fs \in ChoiceLayouts(prog)
       \/ /\ prog = "gemini"
          /\ fs \in GeminiLayouts
    /\ nLevels = 0
    /\ GeneratorAtEntry
    /\ SessionAtEntry

NextFC ==
    \/ LoadPrimes \/ DrawMasks \/ RedrawMask2 \/ DrawDistractor
    \/ RedrawDistractor \/ AppendTrial \/ ReturnTrials
    \/ load_stimuli \/ gemini_run_trial

SpecFC == InitFC /\ [][NextFC]_vars

(* generate_trial_list under fair random choice: the interpreter always takes *)
(* its next step, and a draw that is possible at every pass of a redraw loop  *)
(* is made in the end.                                                        *)

InitChoice ==
    /\ prog \in {"forced_choice", "mainV1"}
    /\ fs \in {f \in ChoiceLayouts(prog) :
                  f.babbling.exists /\ f.babbling.n = 1 /\ f.masks.exists}
    /\ nLevels = 0
    /\ GeneratorAtEntry
    /\ SessionAtEntry

NextChoice ==
    \/ LoadPrimes \/ DrawMasks \/ RedrawMask2 \/ DrawDistractor
    \/ RedrawDistractor \/ AppendTrial \/ ReturnTrials

\* random.choice(mask_list) returns a file other than mask1
Mask2Apart == RedrawMask2 /\ ~MasksCollide(mask1, mask2')

\* random.choice(all_prime_words) returns a word other than correct_word
DistractorApart ==
    RedrawDistractor /\ ~DistractorCollides(distractor_word', prime_list[n_built + 1].word)

SpecChoiceFair ==
    /\ InitChoice
    /\ [][NextChoice]_vars
    /\ WF_vars(NextChoice)
    /\ WF_vars(Mask2Apart)
    /\ WF_vars(DistractorApart)

----------------------------------------------------------------------------
(* main() of d-prime_detection.py, main_typing_experiment.py, forced_choice.py *)

MaxSessionTrials == 4

QUIT_KEY == "escape"

\* the four scripts whose main() has this shape
SessionProgs == {"detection", "typing", "forced_choice", "mainV1"}

\* the key that ends the response phase of a trial
ResponseKeys(p) ==
    CASE p = "detection" -> {"m", "z", QUIT_KEY}
      [] p = "typing" -> {"return", QUIT_KEY}
      [] p = "forced_choice" -> {"left", "right", QUIT_KEY}
      [] p = "mainV1" -> {"4", QUIT_KEY}

\* a trial ends with a response key, or earlier because a sound cannot be loaded
\* or because a call inside it fails unexpectedly
TrialEvents(p) == ResponseKeys(p) \cup {"sound_error", "error"}

\* what run_trial returns; "raise" when the exception leaves it
run_trial(p, ev) ==
    IF ev = "error" THEN "raise"
    ELSE IF ev = "sound_error"
    THEN IF p \in {"forced_choice", "mainV1"} THEN "raise" ELSE "QUIT"
    ELSE IF ev = QUIT_KEY THEN "QUIT" ELSE "None"

\* a loop that runs on after a trial reported QUIT
NeverBreaks(r) == FALSE

\* `if result == 'QUIT': break` in both loops
BreaksLoop(r) == r = "QUIT"

\* a practice phase whose QUIT is forgotten once the loop is left
NeverAborts(r) == FALSE

\* `if result == 'QUIT': raise KeyboardInterrupt` after the practice loop
AbortsAfterPractice(r) == r = "QUIT"

\* MAIN_TRIAL_BREAK_POINTS at the scale of the lists: detection pauses after its
\* first main trial and names one point past the end of the list; mainV1 pauses
\* after its second main trial
MAIN_TRIAL_BREAK_POINTS(p) ==
    CASE p = "detection" -> {0, 2}
      [] p = "mainV1" -> {1}
      [] OTHER -> {}

\* a break test that looks at the one-based number of the trial
AtBreakPointOneBased(p, n) == (n + 1) \in MAIN_TRIAL_BREAK_POINTS(p)

\* `if current_trial_n in MAIN_TRIAL_BREAK_POINTS`
AtBreakPoint(p, n) == n \in MAIN_TRIAL_BREAK_POINTS(p)

\* what a participant can do at an instruction screen; in mainV1 a second escape
\* can reach the buffer between waitKeys and getKeys
InstructionKeys(p) ==
    IF p = "mainV1" THEN {"space", "escape", "escape_repeated"}
                    ELSE {"space", "escape"}

\* an escape that ends the process on the spot
show_instructions_exits(p, key, next) ==
    IF key = "escape" THEN "exited" ELSE next

\* show_instructions: returns on the awaited key; on escape it closes the window
\* and calls core.quit(), which leaves main() through its finally block.  mainV1
\* looks for the escape with event.getKeys() after waitKeys has consumed it.
show_instructions(p, key, next) ==
    IF p = "mainV1"
    THEN IF key = "escape_repeated" THEN "finally" ELSE next
    ELSE IF key = "escape" THEN "finally" ELSE next

\* the entry the screen leaves in the log: which screen, after how many trials
Shown(screen) == [screen |-> screen, after |-> Len(presented)]

\* the generator returned: the lists are handed to the two TrialHandlers
CreateHandlers ==
    /\ pc = "generate"
    /\ gpc = "returned"
    /\ prog \in SessionProgs
    /\ IF prog \in {"forced_choice", "mainV1"}
       THEN /\ practice_list' = Slice(generated_trials, 0, N_PRACTICE_TRIALS)
            /\ main_list' = Slice(generated_trials, N_PRACTICE_TRIALS,
                                  N_TOTAL_TRIALS(prog))
       ELSE UNCHANGED <<practice_list, main_list>>
    /\ pc' = "practice_instructions"
    /\ UNCHANGED <<inputVars, analysisVars, trialVars, gpc, lvl, choiceVars, mask_files, thisN, result,
                   quit_experiment, presented, shown>>

\* core.quit() or an uncaught error inside the generator
GeneratorExits ==
    /\ pc = "generate"
    /\ gpc \in {"quit", "raised"}
    /\ prog \in SessionProgs
    /\ pc' = "finally"
    /\ UNCHANGED <<inputVars, analysisVars, trialVars, gpc, controlVars, choiceVars, mask_files, thisN,
                   result, quit_experiment, presented, shown>>

PracticeInstructions ==
    /\ pc = "practice_instructions"
    /\ \E key \in InstructionKeys(prog) :
          pc' = show_instructions(prog, key, "practice")
    /\ shown' = Append(shown, Shown("practice_instructions"))
    /\ thisN' = 0
    /\ UNCHANGED <<inputVars, analysisVars, trialVars, gpc, controlVars, choiceVars, mask_files, result,
                   quit_experiment, presented>>

Presented(phase, n, r) == [phase |-> phase, index |-> n, result |-> r]

\* one iteration of `for trial in practice_trials`
PracticeTrial ==
    /\ pc = "practice"
    /\ thisN < Len(practice_list)
    /\ \E ev \in TrialEvents(prog) :
          LET r == run_trial(prog, ev)
          IN  /\ presented' = Append(presented, Presented("practice", thisN + 1, r))
              /\ IF r = "raise"
                 THEN /\ pc' = "finally"
                      /\ UNCHANGED <<result, thisN>>
                 ELSE /\ result' = r
                      /\ IF BreaksLoop(r)
                         THEN /\ pc' = "practice_end"
                              /\ UNCHANGED thisN
                         ELSE /\ pc' = "practice"
                              /\ thisN' = thisN + 1
    /\ UNCHANGED <<inputVars, analysisVars, trialVars, gpc, controlVars, choiceVars, mask_files,
                   quit_experiment, shown>>

\* the practice loop is left, by break or because the handler is exhausted
AfterPractice ==
    /\ \/ pc = "practice_end"
       \/ pc = "practice" /\ thisN = Len(practice_list)
    /\ pc' = IF AbortsAfterPractice(result) THEN "finally" ELSE "main_instructions"
    /\ UNCHANGED <<inputVars, analysisVars, trialVars, gpc, controlVars, choiceVars, mask_files, thisN,
                   result, quit_experiment, presented, shown>>

MainInstructions ==
    /\ pc = "main_instructions"
    /\ \E key \in InstructionKeys(prog) : pc' = show_instructions(prog, key, "main")
    /\ shown' = Append(shown, Shown("main_instructions"))
    /\ thisN' = 0
    /\ quit_experiment' = FALSE
    /\ UNCHANGED <<inputVars, analysisVars, trialVars, gpc, controlVars, choiceVars, mask_files, result,
                   presented>>

\* one iteration of `for trial in main_trials`, up to the break-point test
MainTrial ==
    /\ pc = "main"
    /\ thisN < Len(main_list)
    /\ \E ev \in TrialEvents(prog) :
          LET r == run_trial(prog, ev)
              current_trial_n == thisN
          IN  /\ presented' = Append(presented, Presented("main", thisN + 1, r))
              /\ IF r = "raise"
                 THEN /\ pc' = "finally"
                      /\ UNCHANGED <<result, thisN, quit_experiment>>
                 ELSE /\ result' = r
                      /\ IF BreaksLoop(r)
                         THEN /\ quit_experiment' = TRUE
                              /\ pc' = "end_message"
                              /\ UNCHANGED thisN
                         ELSE /\ thisN' = thisN + 1
                              /\ pc' = IF AtBreakPoint(prog, current_trial_n)
                                       THEN "break" ELSE "main"
                              /\ UNCHANGED quit_experiment
    /\ UNCHANGED <<inputVars, analysisVars, trialVars, gpc, controlVars, choiceVars, mask_files, shown>>

\* the break screen
BreakInstructions ==
    /\ pc = "break"
    /\ \E key \in InstructionKeys(prog) : pc' = show_instructions(prog, key, "main")
    /\ shown' = Append(shown, Shown("break"))
    /\ UNCHANGED <<inputVars, analysisVars, trialVars, gpc, controlVars, choiceVars, mask_files, thisN,
                   result, quit_experiment, presented>>

\* the main handler is exhausted
MainExhausted ==
    /\ pc = "main"
    /\ thisN = Len(main_list)
    /\ pc' = "end_message"
    /\ UNCHANGED <<inputVars, analysisVars, trialVars, gpc, controlVars, choiceVars, mask_files, thisN,
                   result, quit_experiment, presented, shown>>

\* the closing screen; every key leads to the finally block
EndMessage ==
    /\ pc = "end_message"
    /\ \E key \in InstructionKeys(prog) :
          pc' = show_instructions(prog, key, "finally")
    /\ shown' = Append(shown, Shown("end_message"))
    /\ UNCHANGED <<inputVars, analysisVars, trialVars, gpc, controlVars, choiceVars, mask_files, thisN,
                   result, quit_experiment, presented>>

\* the finally block: exp_handler.close(), win.close(), core.quit()
Cleanup ==
    /\ pc = "finally"
    /\ pc' = "exited"
    /\ UNCHANGED <<inputVars, analysisVars, trialVars, gpc, controlVars, choiceVars, mask_files, thisN,
                   result, quit_experiment, presented, shown>>

\* the layouts whose lists a session can run through within MaxSessionTrials
SessionLayouts(p, nl) ==
    IF p \in {"forced_choice", "mainV1"}
    THEN {f \in ChoiceLayouts(p) : N_TOTAL_TRIALS(p) <= MaxSessionTrials}
    ELSE {f \in ControlLayouts(p, nl) : NumTrials(p, nl) <= MaxSessionTrials}

Init ==
    /\ prog \in {"detection", "typing", "forced_choice"}
    /\ nLevels \in IF prog = "forced_choice" THEN {0} ELSE 1..MaxLevels
    /\ fs \in SessionLayouts(prog, nLevels)
    /\ GeneratorAtEntry
    /\ SessionAtEntry

Next ==
    \/ LoadAssets \/ GenLevel \/ GenReturn
    \/ LoadPrimes \/ DrawMasks \/ RedrawMask2 \/ DrawDistractor
    \/ RedrawDistractor \/ AppendTrial \/ ReturnTrials
    \/ CreateHandlers \/ GeneratorExits \/ PracticeInstructions \/ PracticeTrial
    \/ AfterPractice \/ MainInstructions \/ MainTrial \/ BreakInstructions
    \/ MainExhausted \/ EndMessage \/ Cleanup

Spec == Init /\ [][Next]_vars

(* The sessions of the two scripts that declare break points *)

InitBreaks ==
    /\ prog \in {"detection", "mainV1"}
    /\ nLevels \in IF prog = "mainV1" THEN {0} ELSE 1..MaxLevels
    /\ fs \in SessionLayouts(prog, nLevels)
    /\ GeneratorAtEntry
    /\ SessionAtEntry

NextBreaks ==
    \/ LoadAssets \/ GenLevel \/ GenReturn
    \/ LoadPrimes \/ DrawMasks \/ RedrawMask2 \/ AppendTrial \/ ReturnTrials
    \/ CreateHandlers \/ GeneratorExits \/ PracticeInstructions \/ PracticeTrial
    \/ AfterPractice \/ MainInstructions \/ MainTrial \/ BreakInstructions
    \/ MainExhausted \/ EndMessage \/ Cleanup

SpecBreaks == InitBreaks /\ [][NextBreaks]_vars

(* main() of d-prime_detection.py where every wait receives a key in the end *)
(* and the interpreter takes every step it can                                *)

InitDetection ==
    /\ prog = "detection"
    /\ nLevels \in 1..MaxLevels
    /\ fs \in SessionLayouts(prog, nLevels)
    /\ GeneratorAtEntry
    /\ SessionAtEntry

NextDetection ==
    \/ LoadAssets \/ GenLevel \/ GenReturn
    \/ CreateHandlers \/ GeneratorExits \/ PracticeInstructions \/ PracticeTrial
    \/ AfterPractice \/ MainInstructions \/ MainTrial \/ BreakInstructions
    \/ MainExhausted \/ EndMessage \/ Cleanup

SpecDetectionFair ==
    InitDetection /\ [][NextDetection]_vars /\ WF_vars(NextDetection)

----------------------------------------------------------------------------
(* run_trial of the five scripts, statement by statement: sound loading, the  *)
(* response, the data added to the handler, the inter-trial interval and the *)
(* return.  Typed text is a sequence of characters.                          *)

MaxTyped == 2

YES_KEY == "m"
NO_KEY == "z"
SUBMIT_KEY == "return"

TrialProgs == SessionProgs \cup {"gemini"}

\* the keys event.waitKeys can hand to run_trial: keyList of the script, or any
\* key at all in the typing loop ("lshift" stands for the keys whose name is
\* longer than one character and that the loop ignores)
VALID_KEYS(p) ==
    CASE p = "detection" -> {YES_KEY, NO_KEY, QUIT_KEY}
      [] p = "typing" -> {"a", "b", "space", "backspace", "lshift", SUBMIT_KEY,
                          QUIT_KEY}
      [] p = "forced_choice" -> {"left", "right", QUIT_KEY}
      [] p = "mainV1" -> {"1", "7", QUIT_KEY}
      [] p = "gemini" -> {"1", "7", QUIT_KEY}

\* the characters a word of the typing experiment is made of
WordChars == {"a", "b", "A", " "}

Words == {<<"a">>, <<"A">>, <<"a", "b">>, <<"b", " ">>}

\* the trial dictionaries run_trial can be called with
TrialInfos(p) ==
    CASE p = "detection" ->
            {[signal_type |-> "present", correct_word |-> <<"a">>],
             [signal_type |-> "absent", correct_word |-> SILENCE]}
      [] p = "typing" -> [correct_word : Words]
      [] p = "forced_choice" ->
            [correct_word : {"glad", "sur"}, distractor_word : {"trist"}]
      [] p = "mainV1" -> [prime_valence : {"positive", "none"}]
      [] p = "gemini" -> [prime_sound_file : {"p1"}]

\* str.lower() on one character
LowerChar(c) == IF c = "A" THEN "a" ELSE c

\* str.lower()
Lower(s) == [k \in 1..Len(s) |-> LowerChar(s[k])]

RECURSIVE LStrip(_)
LStrip(s) == IF s # <<>> /\ Head(s) = " " THEN LStrip(Tail(s)) ELSE s

RECURSIVE RStrip(_)
RStrip(s) ==
    IF s # <<>> /\ s[Len(s)] = " " THEN RStrip(SubSeq(s, 1, Len(s) - 1)) ELSE s

\* str.strip()
Strip(s) == RStrip(LStrip(s))

\* a classification that takes every answer on a present trial for a Hit
TrialOutcomeYesBiased(signal, k) ==
    IF signal = "present" /\ k \in {YES_KEY, NO_KEY} THEN "Hit"
    ELSE IF signal = "absent" /\ k = YES_KEY THEN "False Alarm"
    ELSE IF signal = "absent" /\ k = NO_KEY THEN "Correct Rejection"
    ELSE "NA"

\* the if/elif chain that sets `outcome` in the detection experiment
TrialOutcome(signal, k) ==
    IF signal = "present" /\ k = YES_KEY THEN "Hit"
    ELSE IF signal = "present" /\ k = NO_KEY THEN "Miss"
    ELSE IF signal = "absent" /\ k = YES_KEY THEN "False Alarm"
    ELSE IF signal = "absent" /\ k = NO_KEY THEN "Correct Rejection"
    ELSE "NA"

\* a placement that shows the distractor on the side named by correct_key
WordOnSideSwapped(side, correct_side, info) ==
    IF side = correct_side THEN info.distractor_word ELSE info.correct_word

\* forced choice: the word shown on a side once correct_key is drawn
WordOnSide(side, correct_side, info) ==
    IF side = correct_side THEN info.correct_word ELSE info.distractor_word

\* the data run_trial adds to its handler
TrialRow(p) ==
    CASE p = "detection" ->
            [recorded |-> TRUE, response_key |-> last_key,
             trial_outcome |-> TrialOutcome(trial_info.signal_type, last_key),
             signal_type |-> trial_info.signal_type,
             correct_word |-> trial_info.correct_word]
      [] p = "typing" ->
            [recorded |-> TRUE,
             response_word |-> Lower(Strip(typed_string)),
             accuracy |-> IF Lower(Strip(typed_string))
                               = Lower(Strip(trial_info.correct_word))
                          THEN 1 ELSE 0,
             correct_word |-> trial_info.correct_word]
      [] p = "forced_choice" ->
            [recorded |-> TRUE, response_key |-> last_key,
             correct_key |-> correct_key,
             accuracy |-> IF last_key = correct_key THEN 1 ELSE 0,
             left_word |-> WordOnSide("left", correct_key, trial_info),
             right_word |-> WordOnSide("right", correct_key, trial_info)]
      [] p = "mainV1" -> [recorded |-> TRUE, response_key |-> last_key]
      [] p = "gemini" -> [recorded |-> TRUE, valence_rating |-> last_key]

\* the sound files are loaded; the control experiments turn a failure into the
\* return value 'QUIT', the other scripts let the exception leave run_trial.
\* forced_choice then puts the correct word on a random side.
TrialLoadSounds ==
    /\ tpc = "load"
    /\ \E loaded \in BOOLEAN :
          IF loaded
          THEN /\ tpc' = "respond"
               /\ IF prog = "forced_choice"
                  THEN correct_key' \in {"left", "right"}
                  ELSE UNCHANGED correct_key
               /\ UNCHANGED ret
          ELSE /\ IF prog \in {"detection", "typing"}
                  THEN tpc' = "returned" /\ ret' = "QUIT"
                  ELSE tpc' = "raised" /\ UNCHANGED ret
               /\ UNCHANGED correct_key
    /\ UNCHANGED <<inputVars, analysisVars, gpc, controlVars, choiceVars, sessionVars,
                   trial_info, last_key, typed_string, row, iti_done>>

\* event.waitKeys returns the one response key of the trial; in gemini_code_v1
\* the escape key calls self.close() on the spot
TrialWaitKeys ==
    /\ tpc = "respond"
    /\ prog \in TrialProgs \ {"typing"}
    /\ \E k \in VALID_KEYS(prog) :
          /\ last_key' = k
          /\ tpc' = IF prog = "gemini"
                    THEN IF k = QUIT_KEY THEN "closed" ELSE "iti"
                    ELSE "save"
    /\ UNCHANGED <<inputVars, analysisVars, gpc, controlVars, choiceVars, sessionVars,
                   trial_info, typed_string, correct_key, row, iti_done, ret>>

\* one pass of the typing loop
TypingKey ==
    /\ tpc = "respond"
    /\ prog = "typing"
    /\ \E k \in VALID_KEYS(prog) :
          /\ last_key' = k
          /\ CASE k = QUIT_KEY ->
                    /\ tpc' = "returned"
                    /\ ret' = "QUIT"
                    /\ UNCHANGED typed_string
               [] k = SUBMIT_KEY ->
                    /\ tpc' = "save"
                    /\ UNCHANGED <<typed_string, ret>>
               [] k = "backspace" ->
                    /\ typed_string' = Slice(typed_string, 0, Len(typed_string) - 1)
                    /\ UNCHANGED <<tpc, ret>>
               [] k = "space" ->
                    /\ Len(typed_string) < MaxTyped
                    /\ typed_string' = Append(typed_string, " ")
                    /\ UNCHANGED <<tpc, ret>>
               [] k \in {"a", "b"} ->
                    /\ Len(typed_string) < MaxTyped
                    /\ typed_string' = Append(typed_string, k)
                    /\ UNCHANGED <<tpc, ret>>
               [] OTHER -> UNCHANGED <<tpc, typed_string, ret>>
    /\ UNCHANGED <<inputVars, analysisVars, gpc, controlVars, choiceVars, sessionVars,
                   trial_info, correct_key, row, iti_done>>

\* the addData calls; they are the last statements of gemini_code_v1's trial
TrialSave ==
    /\ tpc = "save"
    /\ row' = TrialRow(prog)
    /\ tpc' = IF prog = "gemini" THEN "returned" ELSE "iti"
    /\ UNCHANGED <<inputVars, analysisVars, gpc, controlVars, choiceVars, sessionVars,
                   trial_info, last_key, typed_string, correct_key, iti_done, ret>>

\* the inter-trial interval; the typing experiment returns None after it
TrialITI ==
    /\ tpc = "iti"
    /\ iti_done' = TRUE
    /\ tpc' = CASE prog = "gemini" -> "save"
                [] prog = "typing" -> "returned"
                [] OTHER -> "check"
    /\ UNCHANGED <<inputVars, analysisVars, gpc, controlVars, choiceVars, sessionVars,
                   trial_info, last_key, typed_string, correct_key, row, ret>>

\* `if key == QUIT_KEY: return 'QUIT'` and `return None`
TrialReturn ==
    /\ tpc = "check"
    /\ ret' = IF last_key = QUIT_KEY THEN "QUIT" ELSE "None"
    /\ tpc' = "returned"
    /\ UNCHANGED <<inputVars, analysisVars, gpc, controlVars, choiceVars, sessionVars,
                   trial_info, last_key, typed_string, correct_key, row, iti_done>>

\* run_trial is entered with one trial dictionary
InitTrial ==
    /\ AnalysisIdle
    /\ prog \in TrialProgs
    /\ nLevels = 0
    /\ fs = NoDir
    /\ GeneratorAtEntry
    /\ mask_files = <<>>
    /\ pc = "trial"
    /\ thisN = 0
    /\ result = "None"
    /\ quit_experiment = FALSE
    /\ presented = <<>>
    /\ shown = <<>>
    /\ tpc = "load"
    /\ trial_info \in TrialInfos(prog)
    /\ last_key = "None"
    /\ typed_string = <<>>
    /\ correct_key = "None"
    /\ row = NoRow
    /\ iti_done = FALSE
    /\ ret = "None"

NextTrial ==
    \/ TrialLoadSounds \/ TrialWaitKeys \/ TypingKey \/ TrialSave \/ TrialITI
    \/ TrialReturn

SpecTrial == InitTrial /\ [][NextTrial]_vars

----------------------------------------------------------------------------
(* The d-prime analysis (analyse.py; dprime_complete.py has the same        *)
(* dprime, chi_square_from_rates and compute_rate_results).  A rate is the   *)
(* exact fraction <<numerator, denominator>>; a compression level is a whole *)
(* number of tenths; NaN is the cell pandas reads from an empty field.       *)

MaxRows == 3
MaxTrialsArg == 3

NaN == -1

CompressionLevels == {1, 2}

Outcomes == {"Hit", "Miss", "False Alarm", "Correct Rejection", "NaN"}

\* the rows the detection experiment can have written; the outcome is missing
\* where the trial was quit or the field is empty
DataRows ==
    {r \in [compression_level : CompressionLevels \cup {NaN},
            signal_type : {"present", "absent"},
            trial_outcome : Outcomes] :
        /\ r.trial_outcome \in {"Hit", "Miss"} => r.signal_type = "present"
        /\ r.trial_outcome \in {"False Alarm", "Correct Rejection"}
              => r.signal_type = "absent"}

\* the frames the *.csv files of DATA_DIR can hold between them
Frames == UNION {[1..k -> DataRows] : k \in 0..MaxRows}

\* a *.csv file: pd.read_csv returns its rows or raises
CsvFile(readable, rows) == [readable |-> readable, rows |-> rows]

\* what DATA_DIR can look like: absent, without a *.csv file, with one file or
\* with two, any of which may be unreadable
Shapes == {"missing", "no_csv", "one", "two", "bad_first", "bad_last", "all_bad"}

DataDir(rows, cut, shape) ==
    [exists |-> shape # "missing",
     files |->
        CASE shape \in {"missing", "no_csv"} -> <<>>
          [] shape = "one" -> <<CsvFile(TRUE, rows)>>
          [] shape = "two" -> <<CsvFile(TRUE, Slice(rows, 0, cut)),
                               CsvFile(TRUE, Slice(rows, cut, Len(rows)))>>
          [] shape = "bad_first" -> <<CsvFile(FALSE, <<>>), CsvFile(TRUE, rows)>>
          [] shape = "bad_last" -> <<CsvFile(TRUE, rows), CsvFile(FALSE, <<>>)>>
          [] shape = "all_bad" -> <<CsvFile(FALSE, <<>>), CsvFile(FALSE, <<>>)>>]

DataDirs == {DataDir(rows, cut, shape) : rows \in Frames, cut \in 1..MaxRows,
                                         shape \in Shapes}

\* comparison of two fractions
Less(a, b) == a[1] * b[2] < b[1] * a[2]

\* f"{rate:.3f}": the rate in thousandths, rounded to the nearest
Format3(rate) == (2000 * rate[1] + rate[2]) \div (2 * rate[2])

\* the two corrections of one rate in dprime, in the order of the code
Corrected(rate, n_trials) ==
    LET high == IF rate[1] = rate[2]
                THEN <<2 * n_trials - 1, 2 * n_trials>> ELSE rate
    IN  IF high[1] = 0 THEN <<1, 2 * n_trials>> ELSE high

\* norm.ppf: infinite at 0 and at 1
norm_ppf(rate) ==
    IF rate[1] = 0 THEN "-inf" ELSE IF rate[1] = rate[2] THEN "inf" ELSE "finite"

\* a - b of two values of norm.ppf
Difference(a, b) ==
    CASE a = "finite" /\ b = "finite" -> "finite"
      [] a = b -> "nan"
      [] a = "inf" \/ b = "-inf" -> "inf"
      [] OTHER -> "-inf"

\* a correction that only looks at the hit rate
dprimeHitOnly(hit_rate, fa_rate, n_trials) ==
    [hit_rate |-> Corrected(hit_rate, n_trials),
     fa_rate |-> fa_rate,
     value |-> Difference(norm_ppf(Corrected(hit_rate, n_trials)),
                          norm_ppf(fa_rate))]

\* dprime: the rates handed to norm.ppf and the kind of value returned
dprime(hit_rate, fa_rate, n_trials) ==
    [hit_rate |-> Corrected(hit_rate, n_trials),
     fa_rate |-> Corrected(fa_rate, n_trials),
     value |-> Difference(norm_ppf(Corrected(hit_rate, n_trials)),
                          norm_ppf(Corrected(fa_rate, n_trials)))]

\* a table whose rows are built on the whole trial count
chi_square_table_whole(hit_rate, fa_rate, n_trials) ==
    << <<(<<hit_rate[1] * n_trials, hit_rate[2]>>),
         (<<(hit_rate[2] - hit_rate[1]) * n_trials, hit_rate[2]>>)>>,
       <<(<<fa_rate[1] * n_trials, fa_rate[2]>>),
         (<<(fa_rate[2] - fa_rate[1]) * n_trials, fa_rate[2]>>)>> >>

\* chi_square_from_rates: `obs`, with n_signal = n_noise = n_trials / 2; the
\* signal row first, the detected column first
chi_square_table(hit_rate, fa_rate, n_trials) ==
    << <<(<<hit_rate[1] * n_trials, 2 * hit_rate[2]>>),
         (<<(hit_rate[2] - hit_rate[1]) * n_trials, 2 * hit_rate[2]>>)>>,
       <<(<<fa_rate[1] * n_trials, 2 * fa_rate[2]>>),
         (<<(fa_rate[2] - fa_rate[1]) * n_trials, 2 * fa_rate[2]>>)>> >>

\* chi_square_from_rates: chi2_contingency raises a ValueError when a column of
\* the table sums to zero (an expected frequency of zero)
chi_square_raises(hit_rate, fa_rate) ==
    \/ hit_rate[1] = 0 /\ fa_rate[1] = 0
    \/ hit_rate[1] = hit_rate[2] /\ fa_rate[1] = fa_rate[2]

\* the two-tier scheme of dprime_complete.py
signif_marker_two_tier(p) ==
    IF Less(p, <<1, 1000>>) THEN "**"
    ELSE IF Less(p, <<5, 100>>) THEN "*"
    ELSE ""

\* signif_marker of analyse.py
signif_marker(p) ==
    IF Less(p, <<1, 1000>>) THEN "***"
    ELSE IF Less(p, <<1, 100>>) THEN "**"
    ELSE IF Less(p, <<5, 100>>) THEN "*"
    ELSE ""

\* Series.unique(): the values in order of first appearance, NaN included once
RECURSIVE unique(_)
unique(column) ==
    IF column = <<>> THEN <<>>
    ELSE LET front == unique(SubSeq(column, 1, Len(column) - 1))
             last == column[Len(column)]
         IN  IF last \in Range(front) THEN front ELSE Append(front, last)

\* df[df["compression_level"] == rate]: NaN equals nothing, itself included
Stratum(frame, rate) ==
    SelectSeq(frame, LAMBDA r : rate # NaN /\ r.compression_level = rate)

\* len(df_rate[df_rate["trial_outcome"] == outcome])
Count(df_rate, outcome) ==
    Len(SelectSeq(df_rate, LAMBDA r : r.trial_outcome = outcome))

\* the statements of one pass of the loop that can raise: the division by
\* len(df_rate) and the chi-square test
StratumRaises(df_rate) ==
    \/ Len(df_rate) = 0
    \/ chi_square_raises(<<Count(df_rate, "Hit"), Len(df_rate)>>,
                         <<Count(df_rate, "False Alarm"), Len(df_rate)>>)

\* new_row of one pass of the loop; chi2 and p stand as the table they are
\* computed from
StratumRow(df_rate, rate) ==
    [compression_rate |-> rate,
     d_prime_raw |-> dprime(<<Count(df_rate, "Hit"), Len(df_rate)>>,
                            <<Count(df_rate, "False Alarm"), Len(df_rate)>>,
                            Len(df_rate)).value,
     hit_rate |-> Format3(<<Count(df_rate, "Hit"), Len(df_rate)>>),
     fa_rate |-> Format3(<<Count(df_rate, "False Alarm"), Len(df_rate)>>),
     chi2 |-> chi_square_table(<<Count(df_rate, "Hit"), Len(df_rate)>>,
                               <<Count(df_rate, "False Alarm"), Len(df_rate)>>,
                               Len(df_rate)),
     n_trials |-> Len(df_rate)]

\* a table left in the order in which the strata were met
Unsorted(rows) == rows

\* results.sort_values("compression_rate").reset_index(drop=True)
RECURSIVE sort_values(_)
sort_values(rows) ==
    IF rows = <<>> THEN <<>>
    ELSE LET least == CHOOSE k \in 1..Len(rows) :
                         \A j \in 1..Len(rows) :
                            \/ rows[k].compression_rate < rows[j].compression_rate
                            \/ (rows[k].compression_rate = rows[j].compression_rate
                                /\ k <= j)
         IN  <<rows[least]>>
             \o sort_values(SubSeq(rows, 1, least - 1)
                            \o SubSeq(rows, least + 1, Len(rows)))

\* a loop that leaves out the strata it cannot compute
compute_rate_results_skipping(frame) ==
    LET list_of_compression_rates ==
            unique([k \in 1..Len(frame) |-> frame[k].compression_level])
        computed ==
            SelectSeq(list_of_compression_rates,
                      LAMBDA rate : ~StratumRaises(Stratum(frame, rate)))
    IN  [raised |-> FALSE,
         rows |-> sort_values([k \in 1..Len(computed) |->
                      StratumRow(Stratum(frame, computed[k]), computed[k])])]

\* compute_rate_results: the sorted table, or the exception that left it.  An
\* empty frame leaves `results` without a compression_rate column (KeyError).
compute_rate_results(frame) ==
    LET list_of_compression_rates ==
            unique([k \in 1..Len(frame) |-> frame[k].compression_level])
        raised ==
            \/ frame = <<>>
            \/ \E k \in 1..Len(list_of_compression_rates) :
                  StratumRaises(Stratum(frame, list_of_compression_rates[k]))
    IN  IF raised
        THEN [raised |-> TRUE, rows |-> <<>>]
        ELSE [raised |-> FALSE,
              rows |-> sort_values(
                  [k \in 1..Len(list_of_compression_rates) |->
                      StratumRow(Stratum(frame, list_of_compression_rates[k]),
                                 list_of_compression_rates[k])])]

\* concat_csvs of the frames that could be read
RECURSIVE concat_csvs(_)
concat_csvs(files) ==
    IF files = <<>> THEN <<>>
    ELSE (IF Head(files).readable THEN Head(files).rows ELSE <<>>)
         \o concat_csvs(Tail(files))

\* load_csv_files as main() calls it: exit 1 without the directory or without
\* one readable file; None without any *.csv file, on which main() returns
load_csv_files ==
    /\ apc = "start"
    /\ IF ~data_dir.exists
       THEN /\ exit_code' = 1
            /\ apc' = "exited"
            /\ UNCHANGED df
       ELSE IF data_dir.files = <<>>
       THEN /\ exit_code' = 0
            /\ apc' = "exited"
            /\ UNCHANGED df
       ELSE IF \A k \in 1..Len(data_dir.files) : ~data_dir.files[k].readable
       THEN /\ exit_code' = 1
            /\ apc' = "exited"
            /\ UNCHANGED df
       ELSE /\ df' = concat_csvs(data_dir.files)
            /\ apc' = "loaded"
            /\ UNCHANGED exit_code
    /\ UNCHANGED <<inputVars, gpc, controlVars, choiceVars, sessionVars,
                   trialVars, data_dir, results, args, out>>

\* the rest of main(): the table is computed, printed and saved; an exception
\* reaches the handler of the __main__ block, which exits with 1
analyse ==
    /\ apc = "loaded"
    /\ IF compute_rate_results(df).raised
       THEN /\ exit_code' = 1
            /\ UNCHANGED results
       ELSE /\ results' = compute_rate_results(df).rows
            /\ exit_code' = 0
    /\ apc' = "exited"
    /\ UNCHANGED <<inputVars, gpc, controlVars, choiceVars, sessionVars,
                   trialVars, data_dir, df, args, out>>

\* the script is started on one state of DATA_DIR
InitAnalysis ==
    /\ prog = "analyse"
    /\ nLevels = 0
    /\ fs = NoDir
    /\ GeneratorAtEntry
    /\ TrialIdle
    /\ mask_files = <<>>
    /\ pc = "idle"
    /\ thisN = 0
    /\ result = "None"
    /\ quit_experiment = FALSE
    /\ presented = <<>>
    /\ shown = <<>>
    /\ data_dir \in DataDirs
    /\ apc = "start"
    /\ df = <<>>
    /\ results = <<>>
    /\ exit_code = -1
    /\ args = <<>>
    /\ out = <<>>

NextAnalysis == load_csv_files \/ analyse

SpecAnalysis == InitAnalysis /\ [][NextAnalysis]_vars

(* dprime and signif_marker called on their own *)

\* the fractions k/d of [0, 1] with a small denominator
Rates == {<<k, d>> : k \in 0..MaxTrialsArg, d \in 1..MaxTrialsArg} \cap
         {<<k, d>> \in (0..MaxTrialsArg) \X (1..MaxTrialsArg) : k <= d}

\* p values on both sides of every threshold of the markers
PValues == {<<k, 10000>> : k \in {0, 9, 10, 11, 99, 100, 101, 499, 500, 501, 10000}}

call_dprime ==
    /\ apc = "call"
    /\ out' = [fn |-> "dprime",
               value |-> dprime(args.hit_rate, args.fa_rate, args.n_trials)]
    /\ apc' = "called"
    /\ UNCHANGED <<inputVars, gpc, controlVars, choiceVars, sessionVars,
                   trialVars, data_dir, df, results, exit_code, args>>

call_signif_marker ==
    /\ apc = "call"
    /\ out' = [fn |-> "signif_marker", value |-> signif_marker(args.p)]
    /\ apc' = "called"
    /\ UNCHANGED <<inputVars, gpc, controlVars, choiceVars, sessionVars,
                   trialVars, data_dir, df, results, exit_code, args>>

call_chi_square_from_rates ==
    /\ apc = "call"
    /\ out' = [fn |-> "chi_square_from_rates",
               obs |-> chi_square_table(args.hit_rate, args.fa_rate, args.n_trials),
               raised |-> chi_square_raises(args.hit_rate, args.fa_rate)]
    /\ apc' = "called"
    /\ UNCHANGED <<inputVars, gpc, controlVars, choiceVars, sessionVars,
                   trialVars, data_dir, df, results, exit_code, args>>

\* dprime_complete.py, chi_square_from_rates: `obs`
dprime_complete_chi_square_table(hit_rate, fa_rate, n_trials) ==
    << <<(<<hit_rate[1] * n_trials, 2 * hit_rate[2]>>),
         (<<(hit_rate[2] - hit_rate[1]) * n_trials, 2 * hit_rate[2]>>)>>,
       <<(<<fa_rate[1] * n_trials, 2 * fa_rate[2]>>),
         (<<(fa_rate[2] - fa_rate[1]) * n_trials, 2 * fa_rate[2]>>)>> >>

\* a marker that follows the tiers of analyse.py
dprime_complete_three_tier(p) == signif_marker(p)

\* dprime_complete.py, signif_marker
dprime_complete_signif_marker(p) ==
    IF Less(p, <<1, 1000>>) THEN "**"
    ELSE IF Less(p, <<5, 100>>) THEN "*"
    ELSE ""

\* dprime_complete.py, compute_rate_results: the table and the marker of one
\* stratum
call_dprime_complete ==
    /\ apc = "call"
    /\ out' = [fn |-> "dprime_complete",
               obs |-> dprime_complete_chi_square_table(args.hit_rate, args.fa_rate,
                                                        args.n_trials),
               value |-> dprime_complete_signif_marker(args.p)]
    /\ apc' = "called"
    /\ UNCHANGED <<inputVars, gpc, controlVars, choiceVars, sessionVars,
                   trialVars, data_dir, df, results, exit_code, args>>

InitStats ==
    /\ prog = "analyse"
    /\ nLevels = 0
    /\ fs = NoDir
    /\ GeneratorAtEntry
    /\ TrialIdle
    /\ mask_files = <<>>
    /\ pc = "idle"
    /\ thisN = 0
    /\ result = "None"
    /\ quit_experiment = FALSE
    /\ presented = <<>>
    /\ shown = <<>>
    /\ data_dir = NoDir
    /\ apc = "call"
    /\ df = <<>>
    /\ results = <<>>
    /\ exit_code = -1
    /\ args \in [hit_rate : Rates, fa_rate : Rates, n_trials : 1..MaxTrialsArg,
                  p : PValues]
    /\ out = <<>>

NextStats ==
    \/ call_dprime
    \/ call_signif_marker
    \/ call_chi_square_from_rates
    \/ call_dprime_complete

SpecStats == InitStats /\ [][NextStats]_vars

(* The analysis module as a whole: the script run, or its functions called *)

SpecAnalyser == (InitAnalysis \/ InitStats) /\ [][NextAnalysis \/ NextStats]_vars

----------------------------------------------------------------------------
(* generate_trial_lists run twice on the same asset directories.  No script  *)
(* seeds the random module, so the second run draws afresh.                  *)

\* the script is started again: what the first run returned is kept aside
RunAgain ==
    /\ gpc = "returned"
    /\ ~earlier.ran
    /\ earlier' = [ran |-> TRUE, practice_list |-> practice_list,
                   main_list |-> main_list, generated_trials |-> generated_trials]
    /\ gpc' = "start"
    /\ lvl' = 0
    /\ practice_list' = <<>>
    /\ main_list' = <<>>
    /\ prime_list' = <<>>
    /\ face_list' = <<>>
    /\ all_prime_words' = {}
    /\ generated_trials' = <<>>
    /\ n_built' = 0
    /\ mask1' = 0
    /\ mask2' = 0
    /\ distractor_word' = <<>>
    /\ UNCHANGED <<prog, nLevels, fs, analysisVars, trialVars, sessionVars>>

InitRerun ==
    /\ prog \in {"detection", "typing"}
    /\ nLevels = 1
    /\ fs \in {f \in ControlLayouts(prog, nLevels) : AuxChoices(prog, nLevels, f) <= 2}
    /\ GeneratorAtEntry
    /\ SessionAtEntry

NextRerun == LoadAssets \/ GenLevel \/ GenReturn \/ RunAgain

SpecRerun == InitRerun /\ [][NextRerun]_vars

----------------------------------------------------------------------------
(* SubliminalExperiment.run of gemini_code_v1.py.  The script sets           *)
(* N_PRACTICE_TRIALS = 10 and N_TRIALS_PER_BLOCK = 70; the exploration runs  *)
(* them at smaller counts.  A condition (one row of conditions.csv, a        *)
(* face/prime pairing) is identified by its row number.                      *)

MaxConditions == 3
GEMINI_N_PRACTICE_TRIALS == 1
N_TRIALS_PER_BLOCK == 1

\* conditions.csv: absent or unreadable, or a number of rows
ConditionFiles == [conditions : DirsUpTo(MaxConditions)]

\* `if i in [N_TRIALS_PER_BLOCK, N_TRIALS_PER_BLOCK * 2]`
BlockStart(n) == n \in {N_TRIALS_PER_BLOCK, N_TRIALS_PER_BLOCK * 2}

\* random.sample(population, k) in the order a TrialHandler of method 'random'
\* presents it: k different elements in any order
Samples(population, k) ==
    {s \in [1..k -> Range(population)] : \A a, b \in 1..k : a # b => s[a] # s[b]}

\* show_instructions of the class: escape among the keys calls self.close()
gemini_show_instructions(pressed, next) ==
    IF pressed = "escape" THEN "closed" ELSE next

\* what one run_trial call and the check after it can come to: a rating, an
\* escape inside the call, an exception, an escape found between two trials
GeminiTrialEvents == {"rating", "escape", "error", "escape_between"}

\* load_conditions: a file that cannot be imported closes the experiment
load_conditions ==
    /\ prog = "gemini"
    /\ pc = "load_conditions"
    /\ IF fs.conditions.exists
       THEN /\ generated_trials' = [k \in 1..fs.conditions.n |-> k]
            /\ pc' = "welcome"
       ELSE /\ pc' = "closed"
            /\ UNCHANGED generated_trials
    /\ UNCHANGED <<inputVars, analysisVars, trialVars, gpc, controlVars, prime_list,
                   face_list, all_prime_words, n_built, mask1, mask2,
                   distractor_word, mask_files, thisN, result, quit_experiment,
                   presented, shown>>

\* the welcome screen, then the practice conditions are sampled; a sample
\* larger than the population raises ValueError, which ends in close()
GeminiWelcome ==
    /\ prog = "gemini"
    /\ pc = "welcome"
    /\ \E pressed \in InstructionKeys(prog) :
          /\ shown' = Append(shown, Shown("welcome"))
          /\ IF pressed = "escape" \/ GEMINI_N_PRACTICE_TRIALS > Len(generated_trials)
             THEN /\ pc' = "closed"
                  /\ UNCHANGED practice_list
             ELSE /\ practice_list' \in
                        Samples(generated_trials, GEMINI_N_PRACTICE_TRIALS)
                  /\ pc' = "practice"
    /\ thisN' = 0
    /\ UNCHANGED <<inputVars, analysisVars, trialVars, gpc, lvl, main_list, choiceVars,
                   mask_files, result, quit_experiment, presented>>

\* one practice trial
GeminiPracticeTrial ==
    /\ prog = "gemini"
    /\ pc = "practice"
    /\ thisN < Len(practice_list)
    /\ \E ev \in GeminiTrialEvents \ {"escape_between"} :
          /\ presented' = Append(presented,
                [phase |-> "practice", index |-> thisN + 1,
                 condition |-> practice_list[thisN + 1], response |-> ev])
          /\ pc' = IF ev = "rating" THEN "practice" ELSE "closed"
    /\ thisN' = thisN + 1
    /\ UNCHANGED <<inputVars, analysisVars, trialVars, gpc, controlVars, choiceVars,
                   mask_files, result, quit_experiment, shown>>

\* the screen after the practice block; the main TrialHandler is created over
\* self.all_conditions
GeminiMainInstructions ==
    /\ prog = "gemini"
    /\ pc = "practice"
    /\ thisN = Len(practice_list)
    /\ \E pressed \in InstructionKeys(prog) :
          /\ shown' = Append(shown, Shown("main"))
          /\ pc' = gemini_show_instructions(pressed, "main")
          /\ IF pressed = "escape"
             THEN UNCHANGED main_list
             ELSE main_list' \in Shuffles(generated_trials)
    /\ thisN' = 0
    /\ UNCHANGED <<inputVars, analysisVars, trialVars, gpc, lvl, practice_list,
                   choiceVars, mask_files, result, quit_experiment, presented>>

\* the break screen before the first trial of the second and the third block
GeminiBreak ==
    /\ prog = "gemini"
    /\ pc = "main"
    /\ thisN < Len(main_list)
    /\ BlockStart(thisN)
    /\ \E pressed \in InstructionKeys(prog) :
          /\ shown' = Append(shown, Shown("break"))
          /\ pc' = gemini_show_instructions(pressed, "main_trial")
    /\ UNCHANGED <<inputVars, analysisVars, trialVars, gpc, controlVars, choiceVars,
                   mask_files, thisN, result, quit_experiment, presented>>

\* one main trial, nextEntry and the escape check between trials
GeminiMainTrial ==
    /\ prog = "gemini"
    /\ \/ pc = "main_trial"
       \/ pc = "main" /\ ~BlockStart(thisN)
    /\ thisN < Len(main_list)
    /\ \E ev \in GeminiTrialEvents :
          /\ presented' = Append(presented,
                [phase |-> "main", index |-> thisN + 1,
                 condition |-> main_list[thisN + 1], response |-> ev])
          /\ pc' = IF ev = "rating" THEN "main" ELSE "closed"
    /\ thisN' = thisN + 1
    /\ UNCHANGED <<inputVars, analysisVars, trialVars, gpc, controlVars, choiceVars,
                   mask_files, result, quit_experiment, shown>>

\* the closing screen and self.close()
GeminiEnd ==
    /\ prog = "gemini"
    /\ pc = "main"
    /\ thisN = Len(main_list)
    /\ shown' = Append(shown, Shown("end"))
    /\ pc' = "closed"
    /\ UNCHANGED <<inputVars, analysisVars, trialVars, gpc, controlVars, choiceVars,
                   mask_files, thisN, result, quit_experiment, presented>>

InitGemini ==
    /\ prog = "gemini"
    /\ nLevels = 0
    /\ fs \in ConditionFiles
    /\ GeneratorAtEntry
    /\ TrialIdle
    /\ AnalysisIdle
    /\ mask_files = <<>>
    /\ pc = "load_conditions"
    /\ thisN = 0
    /\ result = "None"
    /\ quit_experiment = FALSE
    /\ presented = <<>>
    /\ shown = <<>>

NextGemini ==
    \/ load_conditions \/ GeminiWelcome \/ GeminiPracticeTrial
    \/ GeminiMainInstructions \/ GeminiBreak \/ GeminiMainTrial \/ GeminiEnd

SpecGemini == InitGemini /\ [][NextGemini]_vars

----------------------------------------------------------------------------
(* Properties of the generated lists *)

Indices(list) == 1..Len(list)

AtLevel(list, level) == {i \in Indices(list) : list[i].compression_level = level}

WithSignal(list, level, sig) ==
    {i \in AtLevel(list, level) : list[i].signal_type = sig}

DeclaredPractice(p) ==
    IF p = "detection" THEN 2 * N_PRACTICE_REPS_PER_LEVEL ELSE N_PRACTICE_WORDS_PER_FOLDER

DeclaredMain(p) ==
    IF p = "detection" THEN 2 * N_MAIN_REPS_PER_LEVEL ELSE N_MAIN_WORDS_PER_FOLDER

ControlReturned == prog \in {"detection", "typing"} /\ gpc = "returned"

\* C1: whenever generate_trial_lists of the detection or typing experiment
\* returns, every compression level has exactly the declared number of practice
\* trials in the practice list and of main trials in the main list.
C1_StratumCounts ==
    ControlReturned =>
        \A level \in 1..nLevels :
            /\ Cardinality(AtLevel(practice_list, level)) = DeclaredPractice(prog)
            /\ Cardinality(AtLevel(main_list, level)) = DeclaredMain(prog)

\* lists returned for two levels, one of whose folders holds more files than needed
C1_Witness ==
    /\ ControlReturned
    /\ nLevels >= 2
    /\ \E level \in 1..nLevels : fs.audio[level].n > FilesNeeded(prog)
    /\ Len(practice_list) > 0 /\ Len(main_list) > 0

\* C2: in both lists the detection generator returns, every compression level
\* has as many 'present' trials as 'absent' trials.
C2_PresentAbsentBalance ==
    (prog = "detection" /\ gpc = "returned") =>
        \A level \in 1..nLevels :
            /\ Cardinality(WithSignal(practice_list, level, "present"))
                 = Cardinality(WithSignal(practice_list, level, "absent"))
            /\ Cardinality(WithSignal(main_list, level, "present"))
                 = Cardinality(WithSignal(main_list, level, "absent"))

\* a returned detection main list that the shuffle left starting with an absent
\* trial and that holds a present trial further on
C2_Witness ==
    /\ prog = "detection" /\ gpc = "returned"
    /\ Len(main_list) >= 2
    /\ main_list[1].signal_type = "absent"
    /\ \E i \in Indices(main_list) : main_list[i].signal_type = "present"

\* C3: every trial the detection and typing generators return has mask1_file
\* different from mask2_file.
C3_MasksDiffer ==
    ControlReturned =>
        /\ \A i \in Indices(practice_list) :
              practice_list[i].mask1_file # practice_list[i].mask2_file
        /\ \A i \in Indices(main_list) :
              main_list[i].mask1_file # main_list[i].mask2_file

BothLists == practice_list \o main_list

\* C6: across the practice list and the main list together, no prime file of a
\* level is assigned to more than one trial of that level.
C6_PrimeUsedOnce ==
    ControlReturned =>
        \A i, j \in Indices(BothLists) :
            ( /\ i # j
              /\ BothLists[i].compression_level = BothLists[j].compression_level
              /\ BothLists[i].prime_file # SILENCE )
            => BothLists[i].prime_file # BothLists[j].prime_file

\* lists returned from a folder with a spare file, holding a practice prime and
\* a main prime of the same level
C6_Witness ==
    /\ ControlReturned
    /\ \E i \in Indices(practice_list), j \in Indices(main_list) :
          /\ practice_list[i].compression_level = main_list[j].compression_level
          /\ practice_list[i].prime_file # SILENCE
          /\ main_list[j].prime_file # SILENCE
          /\ fs.audio[main_list[j].compression_level].n > FilesNeeded(prog)

ChoiceReturned == prog \in {"forced_choice", "mainV1"} /\ gpc = "returned"

\* C4: every trial in a list returned by generate_trial_list of forced_choice.py
\* and mainV1.py, and every trial run by SubliminalExperiment.run_trial, uses a
\* second mask different from the first.
C4_SecondMaskDiffers ==
    /\ ChoiceReturned =>
          \A k \in Indices(generated_trials) :
              generated_trials[k].mask1_file # generated_trials[k].mask2_file
    /\ prog = "gemini" =>
          \A k \in Indices(presented) :
              presented[k].mask1_file # presented[k].mask2_file

\* a complete list returned from a pool of two masks
C4_Witness ==
    /\ ChoiceReturned
    /\ Len(generated_trials) = N_TOTAL_TRIALS(prog)
    /\ fs.masks.n = MaxMasks
    /\ mask1 # mask2

\* C5: every trial forced_choice.generate_trial_list returns has a
\* distractor_word different from its correct_word.
C5_DistractorDiffers ==
    (prog = "forced_choice" /\ gpc = "returned") =>
        \A k \in Indices(generated_trials) :
            generated_trials[k].distractor_word # generated_trials[k].correct_word

\* a forced-choice list returned from folders holding two files of one word
C5_Witness ==
    /\ prog = "forced_choice" /\ gpc = "returned"
    /\ Len(generated_trials) = N_TOTAL_TRIALS(prog)
    /\ Cardinality(all_prime_words) >= 2
    /\ fs.positive.n + fs.negative.n + fs.neutrale.n > Cardinality(all_prime_words)

SameValence(list, a, b) == list[a].prime_valence = list[b].prime_valence

\* C7 as claimed: within a valence category a prime file appears in at most one
\* trial of the generated list.
C7_PrimeFileInOneTrial ==
    ChoiceReturned =>
        \A a, b \in Indices(generated_trials) :
            ( /\ a # b
              /\ SameValence(generated_trials, a, b)
              /\ generated_trials[a].prime_file # SILENCE )
            => generated_trials[a].prime_file # generated_trials[b].prime_file

ValencePool(valence) ==
    CASE valence = "positive" -> Range(fs.positive.files)
      [] valence = "negative" -> Range(fs.negative.files)
      [] valence = "neutral" -> Range(fs.neutrale.files)
      [] valence = "no-prime" -> {SILENCE}

ValenceCount(p, valence) ==
    CASE valence = "positive" -> NPos(p)
      [] valence = "negative" -> N_NEG_PRIMES
      [] valence = "neutral" -> N_NEU_PRIMES
      [] valence = "no-prime" -> NNoPrime(p)

\* C7 as amended: the primes are drawn with replacement, so a prime file may
\* recur; every trial's prime file is a file of its own valence folder, and each
\* valence has exactly its declared number of trials.
C7_PrimesDrawnFromOwnValence ==
    ChoiceReturned =>
        /\ \A k \in Indices(generated_trials) :
              generated_trials[k].prime_file
                  \in ValencePool(generated_trials[k].prime_valence)
        /\ \A valence \in {"positive", "negative", "neutral", "no-prime"} :
              Cardinality({k \in Indices(generated_trials) :
                              generated_trials[k].prime_valence = valence})
                  = ValenceCount(prog, valence)

\* a returned list in which one prime file of a valence serves two trials
C7_Witness ==
    /\ ChoiceReturned
    /\ \E a, b \in Indices(generated_trials) :
          /\ a # b
          /\ SameValence(generated_trials, a, b)
          /\ generated_trials[a].prime_file # SILENCE
          /\ generated_trials[a].prime_file = generated_trials[b].prime_file

ControlSession == prog \in {"detection", "typing"}

PoolUnusable(d) == ~d.exists \/ d.n = 0

\* some asset generate_trial_lists requires is missing, empty or too small
AssetsInadequate ==
    \/ PoolUnusable(fs.babbling)
    \/ PoolUnusable(fs.masks)
    \/ \E level \in 1..nLevels :
          ~fs.audio[level].exists \/ fs.audio[level].n < FilesNeeded(prog)

\* C8: with a level folder holding fewer files than practice + main requires, a
\* missing asset directory, or an empty babble or mask pool, generate_trial_lists
\* never returns a list and the session runs no trial and goes nowhere but to
\* its exit; with every folder holding at least the required number of files,
\* exactly that number included, the generator does not abort.
C8_AllOrNothing ==
    ControlSession =>
        /\ AssetsInadequate =>
              /\ gpc # "returned"
              /\ presented = <<>>
              /\ pc \in {"generate", "finally", "exited"}
        /\ ~AssetsInadequate => gpc # "quit"

\* a session that has exited without a trial because the second level folder is
\* one file short, after the first level's trials had been drawn
C8_Witness ==
    /\ ControlSession
    /\ nLevels = 2
    /\ fs.audio[1].exists /\ fs.audio[1].n = FilesNeeded(prog)
    /\ fs.audio[2].exists /\ fs.audio[2].n = FilesNeeded(prog) - 1
    /\ Len(practice_list) > 0
    /\ gpc = "quit"
    /\ pc = "exited"

InPhase(phase) == SelectSeq(presented, LAMBDA t : t.phase = phase)

InListOrder(ran) == \A k \in Indices(ran) : ran[k].index = k

\* C9: in a session of the detection, typing or forced-choice experiment the
\* trials run are the practice trials 1, 2, ... in list order followed by the
\* main trials 1, 2, ... in list order, none twice; a main trial has run only if
\* every practice trial ran and none returned QUIT; after a QUIT in practice no
\* main trial has run; and the closing screen of a session that was not quit is
\* reached only with the whole main list run.
C9_SessionFlow ==
    LET ranPractice == InPhase("practice")
        ranMain == InPhase("main")
    IN  /\ presented = ranPractice \o ranMain
        /\ InListOrder(ranPractice) /\ Len(ranPractice) <= Len(practice_list)
        /\ InListOrder(ranMain) /\ Len(ranMain) <= Len(main_list)
        /\ Len(ranMain) > 0 =>
              /\ Len(ranPractice) = Len(practice_list)
              /\ \A k \in Indices(ranPractice) : ranPractice[k].result = "None"
        /\ (\E k \in Indices(ranPractice) : ranPractice[k].result = "QUIT")
              => Len(ranMain) = 0
        /\ (pc = "end_message" /\ ~quit_experiment) =>
              /\ Len(ranMain) = Len(main_list)
              /\ \A k \in Indices(ranMain) : ranMain[k].result = "None"

\* a session at its closing screen after every practice and every main trial ran
C9_Witness ==
    /\ pc = "end_message"
    /\ ~quit_experiment
    /\ Len(practice_list) >= 2
    /\ Len(main_list) >= 2
    /\ Len(presented) = Len(practice_list) + Len(main_list)

\* C10: a trial that reported QUIT is the last trial run in its session.
C10_NoTrialAfterQuit ==
    \A k \in Indices(presented) :
        presented[k].result = "QUIT" => k = Len(presented)

\* a session that exited after its second main trial reported QUIT
C10_Witness ==
    /\ pc = "exited"
    /\ presented # <<>>
    /\ presented[Len(presented)] = Presented("main", 2, "QUIT")
    /\ Len(main_list) > 2

BreaksShown == SelectSeq(shown, LAMBDA e : e.screen = "break")

\* the k-th run_trial call was a main trial at a break point that ended without quit
BreakDue(k) ==
    /\ presented[k].phase = "main"
    /\ presented[k].result = "None"
    /\ (presented[k].index - 1) \in MAIN_TRIAL_BREAK_POINTS(prog)

\* C11: every break screen follows a main trial whose zero-based index is a
\* break point and that completed without quit, at most one per such trial;
\* every such trial is followed by its break screen before any further trial
\* runs; so no break belongs to a practice trial, and a break point not smaller
\* than the length of the main list produces none.
C11_BreaksAtCheckpoints ==
    /\ \A b \in Indices(BreaksShown) :
          /\ BreaksShown[b].after \in Indices(presented)
          /\ BreakDue(BreaksShown[b].after)
          /\ presented[BreaksShown[b].after].index - 1 < Len(main_list)
    /\ \A a, b \in Indices(BreaksShown) :
          a # b => BreaksShown[a].after # BreaksShown[b].after
    /\ \A k \in Indices(presented) :
          BreakDue(k) =>
              \/ \E b \in Indices(BreaksShown) : BreaksShown[b].after = k
              \/ k = Len(presented) /\ pc = "break"
    /\ pc = "break" => (presented # <<>> /\ BreakDue(Len(presented)))

\* a detection session at its closing screen with the whole main list run: one
\* break was shown, and the break point past the end of the list gave none
C11_Witness ==
    /\ prog = "detection"
    /\ pc = "end_message"
    /\ ~quit_experiment
    /\ Len(BreaksShown) = 1
    /\ \E n \in MAIN_TRIAL_BREAK_POINTS(prog) : n >= Len(main_list)
    /\ Len(presented) = Len(practice_list) + Len(main_list)

----------------------------------------------------------------------------
(* Properties of run_trial *)

\* the call is over: it returned, or the experiment was closed inside it
TrialOver == tpc \in {"returned", "closed"}

\* C12: a quit key pressed during a trial is acted on only at the trial
\* boundary: when the call ends after a quit key, the trial's data have been
\* recorded and its inter-trial interval has been waited.
C12_QuitAtTrialBoundary ==
    (TrialOver /\ last_key = QUIT_KEY) => (row.recorded /\ iti_done)

\* the outcome the claim's table gives for a signal type and a key
Classified(signal, k, outcome) ==
    /\ outcome = "Hit" <=> (signal = "present" /\ k = YES_KEY)
    /\ outcome = "Miss" <=> (signal = "present" /\ k = NO_KEY)
    /\ outcome = "False Alarm" <=> (signal = "absent" /\ k = YES_KEY)
    /\ outcome = "Correct Rejection" <=> (signal = "absent" /\ k = NO_KEY)
    /\ k \notin {YES_KEY, NO_KEY} => outcome = "NA"

\* C13: every row the detection trial records carries the outcome of the
\* table for its signal type and response key (Hit, Miss, False Alarm, Correct
\* Rejection), and 'NA' for the quit key; a missing key gives 'NA' as well.
C13_OutcomeClassification ==
    /\ (prog = "detection" /\ row.recorded)
          => Classified(row.signal_type, row.response_key, row.trial_outcome)
    /\ \A signal \in {"present", "absent"} :
          Classified(signal, "None", TrialOutcome(signal, "None"))

\* a present trial answered with the no key was recorded
C13_Witness ==
    /\ prog = "detection"
    /\ tpc = "returned"
    /\ row.recorded
    /\ row.signal_type = "present"
    /\ row.response_key = NO_KEY
    /\ row.trial_outcome = "Miss"

----------------------------------------------------------------------------
(* Properties of the analysis *)

\* compute_rate_results returned its table and the script ended
TableReturned == apc = "exited" /\ results # <<>>

\* the rows of a stratum with the given signal type
OfSignal(df_rate, signal) == SelectSeq(df_rate, LAMBDA r : r.signal_type = signal)

\* C14: in every row of the table the hit rate is the number of Hit rows over
\* the number of signal-present rows of the stratum, and the false-alarm rate
\* the number of False Alarm rows over the number of signal-absent rows.
C14_RatesPerSignalType ==
    TableReturned =>
        \A k \in Indices(results) :
            LET df_rate == Stratum(df, results[k].compression_rate)
                present == Len(OfSignal(df_rate, "present"))
                absent == Len(OfSignal(df_rate, "absent"))
            IN  /\ present > 0 =>
                      results[k].hit_rate = Format3(<<Count(df_rate, "Hit"), present>>)
                /\ absent > 0 =>
                      results[k].fa_rate
                         = Format3(<<Count(df_rate, "False Alarm"), absent>>)

\* two fractions of the same value
Same(a, b) == a[1] * b[2] = b[1] * a[2]

\* the rate the claim expects norm.ppf to be given
Expected(rate, n) ==
    IF rate[1] = 0 THEN <<1, 2 * n>>
    ELSE IF rate[1] = rate[2] THEN <<2 * n - 1, 2 * n>>
    ELSE rate

StrictlyInside(rate) == 0 < rate[1] /\ rate[1] < rate[2]

\* C15: for every n_trials >= 1 and rates in [0, 1], both rates handed to the
\* inverse-normal transform lie strictly between 0 and 1 (0 becomes 1/(2n), 1
\* becomes 1 - 1/(2n), other rates are unchanged) and d-prime is finite.
C15_CorrectedRatesInside ==
    (apc = "called" /\ out.fn = "dprime") =>
        /\ StrictlyInside(out.value.hit_rate)
        /\ StrictlyInside(out.value.fa_rate)
        /\ Same(out.value.hit_rate, Expected(args.hit_rate, args.n_trials))
        /\ Same(out.value.fa_rate, Expected(args.fa_rate, args.n_trials))
        /\ out.value.value = "finite"

\* dprime called with hit rate 1, false-alarm rate 0 and n = 1
C15_Witness ==
    /\ apc = "called"
    /\ out.fn = "dprime"
    /\ args.hit_rate = <<1, 1>>
    /\ args.fa_rate = <<0, 1>>
    /\ args.n_trials = 1
    /\ out.value.value = "finite"

\* how strong a marker is
Strength(marker) ==
    CASE marker = "***" -> 3 [] marker = "**" -> 2 [] marker = "*" -> 1
      [] OTHER -> 0

\* C16: signif_marker of analyse.py returns '***' iff p < 0.001, '**' iff
\* 0.001 <= p < 0.01, '*' iff 0.01 <= p < 0.05 and '' iff p >= 0.05, and no
\* smaller p gets a weaker marker.
C16_ThreeTierMarker ==
    (apc = "called" /\ out.fn = "signif_marker") =>
        /\ out.value = "***" <=> Less(args.p, <<1, 1000>>)
        /\ out.value = "**" <=> (~Less(args.p, <<1, 1000>>) /\ Less(args.p, <<1, 100>>))
        /\ out.value = "*" <=> (~Less(args.p, <<1, 100>>) /\ Less(args.p, <<5, 100>>))
        /\ out.value = "" <=> ~Less(args.p, <<5, 100>>)
        /\ \A q \in PValues :
              Less(q, args.p) => Strength(signif_marker(q)) >= Strength(out.value)

\* the marker of p = 0.001, the first value that no longer gets three stars
C16_Witness ==
    /\ apc = "called"
    /\ out.fn = "signif_marker"
    /\ args.p = <<10, 10000>>
    /\ out.value = "**"

\* the compression levels met in the frame
LevelsOf(frame) == {frame[k].compression_level : k \in Indices(frame)}

\* C17: the returned table has exactly one row per distinct compression_level
\* of the input, in strictly ascending numeric order, whatever the order of
\* the input rows.
C17_OneRowPerLevelAscending ==
    TableReturned =>
        /\ \A level \in LevelsOf(df) :
              Cardinality({k \in Indices(results) :
                              results[k].compression_rate = level}) = 1
        /\ \A k \in Indices(results) : results[k].compression_rate \in LevelsOf(df)
        /\ \A k \in Indices(results) \ {1} :
              results[k - 1].compression_rate < results[k].compression_rate

\* a table of two rows from a frame that meets the higher level first
C17_Witness ==
    /\ TableReturned
    /\ Len(results) = 2
    /\ df[1].compression_level = 2
    /\ results[1].compression_rate = 1

\* a stratum without a signal-present row or without a signal-absent row
OneSided(frame) ==
    \E level \in LevelsOf(frame) \ {NaN} :
        \/ OfSignal(Stratum(frame, level), "present") = <<>>
        \/ OfSignal(Stratum(frame, level), "absent") = <<>>

\* C18: when a stratum has no signal-present trial or no signal-absent trial,
\* compute_rate_results fails instead of producing a table.
C18_EmptyStratumFails ==
    (apc = "exited" /\ df # <<>> /\ OneSided(df)) =>
        (results = <<>> /\ exit_code = 1)

\* the row has a value in both columns the analysis reads
Complete(r) == r.compression_level # NaN /\ r.trial_outcome # "NaN"

\* C19: rows lacking compression_level or trial_outcome are dropped: the run
\* ends as a run on the complete rows alone would, table included.
C19_IncompleteRowsDropped ==
    (apc = "exited" /\ \E k \in Indices(df) : ~Complete(df[k])) =>
        LET kept == compute_rate_results(SelectSeq(df, Complete))
        IN  IF SelectSeq(df, Complete) = <<>> \/ kept.raised
            THEN results = <<>>
            ELSE results = kept.rows /\ exit_code = 0

\* C20: the script ends with exit code 0 exactly when the analysis succeeded,
\* and with another code when DATA_DIR is missing, holds no *.csv file or
\* holds a file that cannot be read.
C20_ExitCodeTellsSuccess ==
    apc = "exited" =>
        /\ exit_code = 0 <=> results # <<>>
        /\ (\/ ~data_dir.exists
            \/ data_dir.files = <<>>
            \/ \E k \in Indices(data_dir.files) : ~data_dir.files[k].readable)
              => exit_code # 0

----------------------------------------------------------------------------
(* Properties of repeated generation *)

\* C21: two runs of the generator on the same asset directories return
\* identical lists: the same order and the same prime, babble and mask
\* assignment for every trial.
C21_RerunReturnsSameLists ==
    (earlier.ran /\ gpc = "returned") =>
        /\ practice_list = earlier.practice_list
        /\ main_list = earlier.main_list
        /\ generated_trials = earlier.generated_trials

----------------------------------------------------------------------------
(* Properties of the gemini_code_v1 session *)

\* the conditions presented in a phase
ConditionsIn(phase) ==
    {presented[k].condition : k \in {j \in Indices(presented) : presented[j].phase = phase}}

\* C22: in SubliminalExperiment.run no condition presented in the practice
\* block is presented again in the main block.
C22_PracticeMainDisjoint ==
    prog = "gemini" => ConditionsIn("practice") \cap ConditionsIn("main") = {}

----------------------------------------------------------------------------
(* Properties of the forced-choice trial *)

\* C23: in forced_choice.run_trial exactly one of left_word and right_word is
\* the correct word and the other the distractor, correct_key names the side
\* of the correct word, and accuracy is 1 iff the response key equals
\* correct_key, 0 otherwise, the quit key included.
C23_ForcedChoiceRow ==
    (prog = "forced_choice" /\ row.recorded) =>
        /\ {row.left_word, row.right_word}
              = {trial_info.correct_word, trial_info.distractor_word}
        /\ row.left_word # row.right_word
        /\ row.correct_key \in {"left", "right"}
        /\ row.correct_key = "left" <=> row.left_word = trial_info.correct_word
        /\ row.correct_key = "right" <=> row.right_word = trial_info.correct_word
        /\ row.accuracy \in {0, 1}
        /\ row.accuracy = 1 <=> row.response_key = row.correct_key
        /\ row.response_key = QUIT_KEY => row.accuracy = 0

\* the correct word was shown on the right and chosen
C23_Witness ==
    /\ prog = "forced_choice"
    /\ tpc = "returned"
    /\ row.recorded
    /\ row.correct_key = "right"
    /\ row.response_key = "right"
    /\ row.right_word = trial_info.correct_word
    /\ row.accuracy = 1

----------------------------------------------------------------------------
(* Properties of the chi-square input *)

\* the sum of two fractions
Plus(a, b) == <<a[1] * b[2] + b[1] * a[2], a[2] * b[2]>>

\* the claim's table for rates h, f and n trials: rows of n/2 trials each
ClaimedTable(obs, h, f, n) ==
    /\ Same(obs[1][1], <<h[1] * n, 2 * h[2]>>)
    /\ Same(obs[1][2], <<(h[2] - h[1]) * n, 2 * h[2]>>)
    /\ Same(obs[2][1], <<f[1] * n, 2 * f[2]>>)
    /\ Same(obs[2][2], <<(f[2] - f[1]) * n, 2 * f[2]>>)
    /\ \A r, c \in 1..2 : obs[r][c][1] >= 0 /\ obs[r][c][2] > 0
    /\ \A r \in 1..2 : Same(Plus(obs[r][1], obs[r][2]), <<n, 2>>)
    /\ Same(Plus(Plus(obs[1][1], obs[1][2]), Plus(obs[2][1], obs[2][2])), <<n, 1>>)

\* C24: chi_square_from_rates builds the table (h*n/2, (1-h)*n/2),
\* (f*n/2, (1-f)*n/2) from the uncorrected rates: no cell is negative, each
\* row sums to n/2 and the total is n; the table and the rates of a result row
\* are those of the uncorrected rates, also where dprime corrected them.
C24_ChiSquareTable ==
    /\ (apc = "called" /\ out.fn = "chi_square_from_rates") =>
          ClaimedTable(out.obs, args.hit_rate, args.fa_rate, args.n_trials)
    /\ TableReturned =>
          \A k \in Indices(results) :
             LET df_rate == Stratum(df, results[k].compression_rate)
                 h == <<Count(df_rate, "Hit"), Len(df_rate)>>
                 f == <<Count(df_rate, "False Alarm"), Len(df_rate)>>
             IN  /\ ClaimedTable(results[k].chi2, h, f, Len(df_rate))
                 /\ results[k].hit_rate = Format3(h)
                 /\ results[k].fa_rate = Format3(f)

\* a row of a stratum whose hit rate 1 and false-alarm rate 0 dprime corrected
C24_Witness ==
    /\ TableReturned
    /\ \E k \in Indices(results) :
          /\ results[k].hit_rate = 1000
          /\ results[k].fa_rate = 0
          /\ results[k].d_prime_raw = "finite"
          /\ results[k].n_trials = 2

----------------------------------------------------------------------------
(* Properties of the two analysis scripts *)

\* two tables with the same cells
SameTable(a, b) == \A r, c \in 1..2 : Same(a[r][c], b[r][c])

\* C26 as claimed: analyse.py and dprime_complete.py build different chi-square
\* tables for some rates and trial count, and return different markers for
\* some p.
C26_TablesAndMarkersDiffer ==
    prog = "analyse" =>
        /\ \E h \in Rates, f \in Rates, n \in 1..MaxTrialsArg :
              ~SameTable(chi_square_table(h, f, n),
                         dprime_complete_chi_square_table(h, f, n))
        /\ \E p \in PValues : signif_marker(p) # dprime_complete_signif_marker(p)

\* C26: the two scripts build the same chi-square table from the same rates and
\* trial count, and their markers differ exactly for p < 0.01: '***' against
\* '**' below 0.001, '**' against '*' from 0.001 to 0.01.
C26_OnlyMarkersDiffer ==
    (apc = "called" /\ out.fn = "dprime_complete") =>
        /\ SameTable(out.obs,
                     chi_square_table(args.hit_rate, args.fa_rate, args.n_trials))
        /\ out.value # signif_marker(args.p) <=> Less(args.p, <<1, 100>>)
        /\ Less(args.p, <<1, 1000>>) =>
              out.value = "**" /\ signif_marker(args.p) = "***"
        /\ (~Less(args.p, <<1, 1000>>) /\ Less(args.p, <<1, 100>>)) =>
              out.value = "*" /\ signif_marker(args.p) = "**"

\* dprime_complete.py marks p = 0.0099 with one star where analyse.py gives two
C26_Witness ==
    /\ apc = "called"
    /\ out.fn = "dprime_complete"
    /\ args.p = <<99, 10000>>
    /\ out.value = "*"
    /\ signif_marker(args.p) = "**"

----------------------------------------------------------------------------
(* Properties of the order of the forced-choice trial list *)

\* C25: in the list that generate_trial_list of forced_choice.py and mainV1.py
\* returns, the trial at position k carries trial_i = k: the index is assigned
\* after the final shuffle.
C25_TrialIndexIsPosition ==
    ChoiceReturned =>
        \A k \in 1..Len(generated_trials) : generated_trials[k].trial_i = k

----------------------------------------------------------------------------
(* Properties of the redraw loops of generate_trial_list *)

\* the asset checks have passed and the list is being built
Building == FCProg /\ gpc \in {"build", "mask_loop", "distractor_loop"}

\* C27: under fair random choice generate_trial_list of forced_choice.py and
\* mainV1.py, once the asset checks have passed, returns if the mask pool
\* holds two files or more; with one mask file it never returns and never
\* leaves the mask2 redraw loop; the distractor redraw loop is always left.
C27_TerminatesIffTwoMasks ==
    /\ (Building /\ fs.masks.n >= 2) ~> ChoiceReturned
    /\ [](fs.masks.n = 1 => ~ChoiceReturned)
    /\ [][(gpc = "mask_loop" /\ fs.masks.n = 1) => gpc' = "mask_loop"]_vars
    /\ (gpc = "distractor_loop") ~> (gpc = "build")

\* a forced-choice list returned after a mask and a distractor were redrawn
C27_Witness ==
    /\ ChoiceReturned
    /\ prog = "forced_choice"
    /\ fs.masks.n = 2
    /\ Len(generated_trials) = N_TOTAL_TRIALS(prog)

----------------------------------------------------------------------------
(* Properties of a failing stratum *)

\* the compression levels of the loaded rows
LoadedLevels == {df[k].compression_level : k \in 1..Len(df)}

\* a stratum of the loaded rows on which the loop body raises
FailingLevels == {rate \in LoadedLevels : StratumRaises(Stratum(df, rate))}

\* C28: compute_rate_results is all-or-nothing over the strata: when one
\* stratum raises (e.g. no Hit and no False Alarm row), no stratum gets a
\* result, nothing is saved and the script exits non-zero; otherwise every
\* stratum gets its row.
C28_AllOrNothing ==
    (apc = "exited" /\ df # <<>>) =>
        /\ FailingLevels # {} => (results = <<>> /\ exit_code = 1)
        /\ FailingLevels = {} =>
              /\ {results[k].compression_rate : k \in 1..Len(results)} = LoadedLevels
              /\ exit_code = 0

\* level 1 has a Hit row, level 2 only a Miss row: no table, exit code 1
C28_Witness ==
    /\ apc = "exited"
    /\ exit_code = 1
    /\ results = <<>>
    /\ FailingLevels = {2}
    /\ LoadedLevels = {1, 2}
    /\ \E k \in 1..Len(df) : df[k].compression_level = 1 /\ df[k].trial_outcome = "Hit"

----------------------------------------------------------------------------
(* Properties of the end of the detection session *)

\* C29: where every wait receives a key, main() of d-prime_detection.py always
\* ends, after at most len(practice_list) + len(main_list) trials; it ends
\* only through the cleanup of its finally block, on every path, and no trial
\* runs once the cleanup is reached.
C29_EndsThroughCleanup ==
    /\ <>(pc = "exited")
    /\ [](Len(presented) <= Len(practice_list) + Len(main_list))
    /\ [][pc' = "exited" => pc = "finally"]_vars
    /\ [][(pc = "finally" \/ pc = "exited") => presented' = presented]_vars

\* the session ended after an unexpected error in its second main trial
C29_Witness ==
    /\ prog = "detection"
    /\ pc = "exited"
    /\ Len(presented) = Len(practice_list) + 2
    /\ presented[Len(presented)].result = "raise"
    /\ presented[Len(presented)].phase = "main"

----------------------------------------------------------------------------
(* Properties of the escape key at an instruction screen *)

\* the instruction and break screens of a session
AtScreen == pc = "practice_instructions" \/ pc = "main_instructions" \/ pc = "break"

\* C30: escape at an instruction or break screen aborts the session: the
\* session never goes on from such a screen to its trials by a step that the
\* escape key takes.
C30_EscapeAbortsSession ==
    [][(AtScreen /\ (pc' = "practice" \/ pc' = "main")) =>
          show_instructions(prog, "escape", pc') = "finally"]_vars

====
